---- MODULE Spec2Model ----
(***************************************************************************)
(* Order lifecycle core of order-service-v2: the Order aggregate           *)
(* (src/domain/entities/order.py), the orchestration service               *)
(* (src/application/services/order_service.py) and the collaborators it    *)
(* awaits (inventory validation, order repository, event publisher), the   *)
(* read-only query service and the repository and inventory adapters.      *)
(*                                                                         *)
(* Money is modelled in integers: unit prices are multiples of 10, so the  *)
(* 10% tax of every subtotal is an exact integer.                          *)
(***************************************************************************)
EXTENDS Integers, Sequences, FiniteSets, TLC

VARIABLES
  agg,          \* an Order object on its own (aggregate-level behaviours)
  aggLast,      \* the last method called on agg and how it ended
  repo,         \* the orders table with its items: order id -> stored order
  req,          \* the requests in flight: slot -> coroutine state of a use case
  events,       \* the events published so far, in publication order
  started,      \* number of requests started so far
  nextOrderId,  \* uuid4() for orders: the next unused order id
  nextItemId,   \* uuid4() for items: the next unused item id
  portCall      \* the last call made on an adapter or query on its own, and its outcome

vars == <<agg, aggLast, repo, req, events, started, nextOrderId, nextItemId, portCall>>

aggVars == <<agg, aggLast>>
svcVars == <<repo, req, events, started, nextOrderId, nextItemId>>

(***************************************************************************)
(* Bounds of the model and domains of the inputs.                          *)
(***************************************************************************)
MaxItems == 2      \* aggregate on its own: add_item is tried up to this many items
MaxItemId == 2     \* aggregate on its own: item ids 1..MaxItemId (ids may repeat)
MaxTime == 2       \* aggregate on its own: datetime.now() ranges over 1..MaxTime
MaxStarts == 2     \* service: requests started in one run
Quantities == {1, 2}
UnitPrices == {10}
Customers == {1}
ItemIds == 1..MaxItemId
Times == 1..MaxTime
\* The service's clock does not advance within a run: no use case reads a time.
ServiceTimes == {1}

(***************************************************************************)
(* Domain layer.                                                           *)
(***************************************************************************)
TAX_RATE_PCT == 10

OrderStatus ==
  {"CREATED", "PENDING", "CONFIRMED", "PREPARING", "READY", "DELIVERED", "CANCELLED"}

\* datetime None
NoTime == 0

OrderTotal(subtotal, tax, total) ==
  [subtotal |-> subtotal, tax |-> tax, total |-> total]

\* OrderItem.create: total_price = quantity * unit_price
OrderItem_create(id, product_id, quantity, unit_price) ==
  [id |-> id, product_id |-> product_id, quantity |-> quantity,
   unit_price |-> unit_price, total_price |-> quantity * unit_price]

RECURSIVE sum_total_price(_)
sum_total_price(items) ==
  IF items = <<>> THEN 0
  ELSE Head(items).total_price + sum_total_price(Tail(items))

\* subtotal * 0.10
tax_of(subtotal) == (subtotal * TAX_RATE_PCT) \div 100

\* The factory as it would be if it left the tax out of the total
Order_create_without_tax(id, customer_id, items, now) ==
  LET subtotal == sum_total_price(items)
  IN [id |-> id, customer_id |-> customer_id, items |-> items,
      status |-> "CREATED",
      total |-> OrderTotal(subtotal, tax_of(subtotal), subtotal),
      created_at |-> now, updated_at |-> NoTime]

\* Order.create: the factory; the id is the fresh uuid4 the caller supplies here
Order_create(id, customer_id, items, now) ==
  LET subtotal == sum_total_price(items)
      tax == tax_of(subtotal)
  IN [id |-> id, customer_id |-> customer_id, items |-> items,
      status |-> "CREATED",
      total |-> OrderTotal(subtotal, tax, subtotal + tax),
      created_at |-> now, updated_at |-> NoTime]

\* Order._recalculate_total
recalculate_total(order) ==
  LET subtotal == sum_total_price(order.items)
      tax == tax_of(subtotal)
  IN [order EXCEPT !.total = OrderTotal(subtotal, tax, subtotal + tax)]

\* The result of a method call: the exception raised ("" when it returns) and
\* the object afterwards.
Returned(order) == [exc |-> "", order |-> order]
Raised(kind, order) == [exc |-> kind, order |-> order]

CanModifyItems(status) == status = "CREATED" \/ status = "PENDING"

\* add_item as it would be if it appended the item before checking the status
add_item_appending_before_guard(order, item) ==
  IF ~CanModifyItems(order.status)
  THEN Raised("ValueError", [order EXCEPT !.items = Append(@, item)])
  ELSE Returned(recalculate_total([order EXCEPT !.items = Append(@, item)]))

\* Order.add_item
add_item(order, item) ==
  IF ~CanModifyItems(order.status)
  THEN Raised("ValueError", order)
  ELSE Returned(recalculate_total([order EXCEPT !.items = Append(@, item)]))

\* remove_item as it would be without the recalculation of the total
remove_item_without_recalculation(order, item_id) ==
  IF ~CanModifyItems(order.status)
  THEN Raised("ValueError", order)
  ELSE Returned([order EXCEPT !.items = SelectSeq(@, LAMBDA it : it.id # item_id)])

\* remove_item as it would be if it raised for an item id the order does not have
remove_item_raising_on_missing(order, item_id) ==
  IF ~CanModifyItems(order.status)
  THEN Raised("ValueError", order)
  ELSE IF \A k \in 1..Len(order.items) : order.items[k].id # item_id
  THEN Raised("ValueError", order)
  ELSE Returned(recalculate_total(
         [order EXCEPT !.items = SelectSeq(@, LAMBDA it : it.id # item_id)]))

\* Order.remove_item
remove_item(order, item_id) ==
  IF ~CanModifyItems(order.status)
  THEN Raised("ValueError", order)
  ELSE Returned(recalculate_total(
         [order EXCEPT !.items = SelectSeq(@, LAMBDA it : it.id # item_id)]))

\* update_status as it would be with a legality check that refuses to move an
\* order out of DELIVERED or CANCELLED
update_status_refusing_terminal(order, status, now) ==
  IF order.status \in {"DELIVERED", "CANCELLED"} /\ status # order.status
  THEN Raised("ValueError", order)
  ELSE Returned([order EXCEPT !.status = status, !.updated_at = now])

\* Order.update_status
update_status(order, status, now) ==
  Returned([order EXCEPT !.status = status, !.updated_at = now])

\* cancel as it would be with the guard also refusing an already cancelled order
cancel_refusing_cancelled(order, now) ==
  IF order.status = "DELIVERED" \/ order.status = "CANCELLED"
  THEN Raised("ValueError", order)
  ELSE Returned([order EXCEPT !.status = "CANCELLED", !.updated_at = now])

\* Order.cancel
cancel(order, now) ==
  IF order.status = "DELIVERED"
  THEN Raised("ValueError", order)
  ELSE Returned([order EXCEPT !.status = "CANCELLED", !.updated_at = now])

(***************************************************************************)
(* The aggregate on its own: an order built by the factory, then any       *)
(* sequence of its four mutation methods.                                  *)
(***************************************************************************)
NewItems == {OrderItem_create(i, p, q, u) :
               i \in ItemIds, p \in {1}, q \in Quantities, u \in UnitPrices}

SeqsUpTo(S, n) == UNION {[1..k -> S] : k \in 0..n}

\* datetime.now(): some time not before the times already stamped on the order
NowAfter(order) ==
  {t \in Times : t >= order.created_at /\ t >= order.updated_at}

NoCall == [op |-> "create", exc |-> "", item_id |-> 0, prev_status |-> "CREATED"]

AggAddItem ==
  /\ Len(agg.items) < MaxItems
  /\ \E item \in NewItems :
       LET r == add_item(agg, item)
       IN /\ agg' = r.order
          /\ aggLast' = [op |-> "add_item", exc |-> r.exc,
                         item_id |-> item.id, prev_status |-> agg.status]
  /\ UNCHANGED <<portCall, repo, req, events, started, nextOrderId, nextItemId>>

AggRemoveItem ==
  /\ \E item_id \in ItemIds :
       LET r == remove_item(agg, item_id)
       IN /\ agg' = r.order
          /\ aggLast' = [op |-> "remove_item", exc |-> r.exc,
                         item_id |-> item_id, prev_status |-> agg.status]
  /\ UNCHANGED <<portCall, repo, req, events, started, nextOrderId, nextItemId>>

AggUpdateStatus ==
  /\ \E status \in OrderStatus, now \in NowAfter(agg) :
       LET r == update_status(agg, status, now)
       IN /\ agg' = r.order
          /\ aggLast' = [op |-> "update_status", exc |-> r.exc,
                         item_id |-> 0, prev_status |-> agg.status]
  /\ UNCHANGED <<portCall, repo, req, events, started, nextOrderId, nextItemId>>

AggCancel ==
  /\ \E now \in NowAfter(agg) :
       LET r == cancel(agg, now)
       IN /\ agg' = r.order
          /\ aggLast' = [op |-> "cancel", exc |-> r.exc,
                         item_id |-> 0, prev_status |-> agg.status]
  /\ UNCHANGED <<portCall, repo, req, events, started, nextOrderId, nextItemId>>

(***************************************************************************)
(* Application layer: the six use cases of OrderService as coroutines.     *)
(* A use case runs atomically from one await to the next; while it is      *)
(* suspended the other request may run.  req[r].pc names the collaborator  *)
(* call the request is suspended in: "find_by_id", "validate", "save",     *)
(* "update_select" and "update_commit" (the two awaits of                  *)
(* OrderRepository.update) and "publish".  The action that resumes the     *)
(* request takes the collaborator's answer and runs to the next await.     *)
(* req[r].trace logs the collaborator calls and the in-memory mutation of  *)
(* the request, in the order they happen.                                  *)
(***************************************************************************)
Reqs == {1, 2}
OrderIds == 1..(MaxStarts + 1)

NoOrder ==
  [id |-> 0, customer_id |-> 0, items |-> <<>>, status |-> "CREATED",
   total |-> OrderTotal(0, 0, 0), created_at |-> NoTime, updated_at |-> NoTime]

NoAvailability == [yes |-> {}, no |-> {}]

NoEvent ==
  [event_type |-> "", order_id |-> 0, customer_id |-> 0, items |-> <<>>,
   total_amount |-> 0, status |-> "", previous_status |-> "", new_status |-> ""]

Idle ==
  [op |-> "", pc |-> "idle", order_id |-> 0, customer_id |-> 0,
   items |-> <<>>, item_id |-> 0, status |-> "CREATED",
   order |-> NoOrder, validating |-> <<>>, availability |-> NoAvailability,
   previous_status |-> "", to_add |-> <<>>, to_remove |-> {},
   event |-> NoEvent, exc |-> "", details |-> {}, trace |-> <<>>]

\* What a request submits as an item: product, quantity and unit price; the
\* controller builds the item with OrderItem.create, which draws a fresh id.
ItemSpecs == {<<1, 1, 10>>, <<2, 2, 10>>}

\* The item lists submitted to create_order: none, one item, two items of
\* different products.
CreateItemSpecs ==
  {<<>>, <<(<<1, 1, 10>>)>>, <<(<<2, 2, 10>>)>>, <<(<<1, 1, 10>>), (<<2, 2, 10>>)>>}

MakeItems(specs, firstId) ==
  [k \in 1..Len(specs) |->
     OrderItem_create(firstId + k - 1, specs[k][1], specs[k][2], specs[k][3])]

ProductIds(items) == {items[k].product_id : k \in 1..Len(items)}
ItemIdsOf(items) == {items[k].id : k \in 1..Len(items)}

\* A request is started in the lowest free slot, at most MaxStarts in a run,
\* once the responses of the finished requests are out.
CanStart(r) ==
  /\ started < MaxStarts
  /\ req[r].pc = "idle"
  /\ \A q \in Reqs : req[q].pc # "done"
  /\ \A q \in Reqs : q < r => req[q].pc # "idle"

\* An exception leaves the coroutine: the use cases catch nothing.
Raise(q, kind, details) ==
  [q EXCEPT !.pc = "done", !.exc = kind, !.details = details]

(***************************************************************************)
(* Events (src/application/events/order_events.py).                        *)
(***************************************************************************)
OrderCreatedEvent_create(order) ==
  [NoEvent EXCEPT !.event_type = "order.created", !.order_id = order.id,
                  !.customer_id = order.customer_id, !.items = order.items,
                  !.total_amount = order.total.total, !.status = order.status]

OrderConfirmedEvent_create(order) ==
  [NoEvent EXCEPT !.event_type = "order.confirmed", !.order_id = order.id,
                  !.customer_id = order.customer_id,
                  !.total_amount = order.total.total]

OrderCancelledEvent_create(order) ==
  [NoEvent EXCEPT !.event_type = "order.cancelled", !.order_id = order.id,
                  !.customer_id = order.customer_id]

OrderStatusUpdatedEvent_create(order, previous_status) ==
  [NoEvent EXCEPT !.event_type = "order.status_updated", !.order_id = order.id,
                  !.customer_id = order.customer_id,
                  !.previous_status = previous_status,
                  !.new_status = order.status]

(***************************************************************************)
(* Collaborators: what a call can answer.                                  *)
(***************************************************************************)
\* OrderRepository.find_by_id: the stored order, or None
find_by_id(order_id) == repo[order_id]

\* InventoryServicePort.validate_items_availability: a mapping from product
\* ids to booleans (yes: the keys mapped to True, no: the keys mapped to False;
\* the port does not promise an entry for every item), or an
\* InventoryValidationException when the inventory service cannot be reached
\* or answers with an error status.
validate_items_availability(items) ==
  {[exc |-> "", availability |-> [yes |-> yes, no |-> keys \ yes]] :
     <<keys, yes>> \in {kv \in (SUBSET ProductIds(items)) \X (SUBSET ProductIds(items)) :
                         kv[2] \subseteq kv[1]}}
  \cup {[exc |-> "InventoryValidationException", availability |-> NoAvailability]}

\* OrderRepository.save: inserts the order with its items and commits, or the
\* database raises and nothing is stored
save(order) ==
  {[exc |-> "", repo |-> [repo EXCEPT ![order.id] = order]],
   [exc |-> "RepositoryError", repo |-> repo]}

\* OrderRepository.update up to its commit (lines 127-191): selects the stored
\* order with its items, raises if there is none, and works out the items to
\* insert and to delete
OrderRepository_update_select(r) ==
  /\ req[r].pc = "update_select"
  /\ LET order == req[r].order
         order_model == repo[order.id]
         existing_item_ids == ItemIdsOf(order_model.items)
         updated_item_ids == ItemIdsOf(order.items)
     IN req' = [req EXCEPT ![r] =
          IF order_model = NoOrder
          THEN Raise(req[r], "ValueError", {})
          ELSE [req[r] EXCEPT
                  !.pc = "update_commit",
                  !.to_add = SelectSeq(order.items,
                                       LAMBDA it : it.id \notin existing_item_ids),
                  !.to_remove = existing_item_ids \ updated_item_ids]]
  /\ UNCHANGED <<portCall, agg, aggLast, repo, events, started, nextOrderId, nextItemId>>

\* update's commit as it would be if it recomputed the stored total from the
\* items it leaves instead of writing the total it was given
update_written_recalculating_total(order_model, order, to_add, to_remove, now) ==
  recalculate_total(
    [order_model EXCEPT
       !.status = order.status,
       !.updated_at = IF order.updated_at # NoTime THEN order.updated_at ELSE now,
       !.items = SelectSeq(@, LAMBDA it : it.id \notin to_remove) \o to_add])

\* update's commit as it would be if it also wrote the order's updated_at into
\* the created_at column
update_written_stamping_created_at(order_model, order, to_add, to_remove, now) ==
  [order_model EXCEPT
     !.status = order.status,
     !.created_at = order.updated_at,
     !.updated_at = IF order.updated_at # NoTime THEN order.updated_at ELSE now,
     !.total = order.total,
     !.items = SelectSeq(@, LAMBDA it : it.id \notin to_remove) \o to_add]

\* The row and items the commit of OrderRepository.update leaves: status,
\* updated_at and total of the order it was given, the items deleted and inserted
update_written(order_model, order, to_add, to_remove, now) ==
  [order_model EXCEPT
     !.status = order.status,
     !.updated_at = IF order.updated_at # NoTime THEN order.updated_at ELSE now,
     !.total = order.total,
     !.items = SelectSeq(@, LAMBDA it : it.id \notin to_remove) \o to_add]

\* OrderRepository.update, its commit (lines 192-196), or the database raises
\* and nothing is written
update_commit(order, to_add, to_remove) ==
  {[exc |-> "",
    repo |-> [repo EXCEPT ![order.id] =
                update_written(@, order, to_add, to_remove, now)]] :
     now \in ServiceTimes}
  \cup {[exc |-> "RepositoryError", repo |-> repo]}

\* EventPublisherPort.publish_event: the event is sent, or the publisher raises
publish_event(event) ==
  {[exc |-> "", events |-> Append(events, event)],
   [exc |-> "PublishError", events |-> events]}

(***************************************************************************)
(* OrderService.create_order                                               *)
(***************************************************************************)
\* create_order as it would be without the rejection of an empty item list
create_order_accepting_empty(r) ==
  /\ CanStart(r)
  /\ \E customer_id \in Customers, specs \in CreateItemSpecs :
       LET items == MakeItems(specs, nextItemId)
           call == [Idle EXCEPT !.op = "create_order",
                                !.customer_id = customer_id, !.items = items]
       IN /\ req' = [req EXCEPT ![r] =
                 [call EXCEPT !.pc = "validate", !.validating = items,
                              !.trace = <<"validate">>]]
          /\ nextItemId' = nextItemId + Len(items)
  /\ started' = started + 1
  /\ UNCHANGED <<portCall, agg, aggLast, repo, events, nextOrderId>>

\* lines 36-48: rejects an empty item list, else awaits the inventory with all items
create_order(r) ==
  /\ CanStart(r)
  /\ \E customer_id \in Customers, specs \in CreateItemSpecs :
       LET items == MakeItems(specs, nextItemId)
           call == [Idle EXCEPT !.op = "create_order",
                                !.customer_id = customer_id, !.items = items]
       IN /\ req' = [req EXCEPT ![r] =
                 IF items = <<>>
                 THEN Raise(call, "OrderCreationException", {})
                 ELSE [call EXCEPT !.pc = "validate", !.validating = items,
                                   !.trace = <<"validate">>]]
          /\ nextItemId' = nextItemId + Len(items)
  /\ started' = started + 1
  /\ UNCHANGED <<portCall, agg, aggLast, repo, events, nextOrderId>>

\* create_order as it would be without the check of the availability entries
create_order_validated_unchecked(r) ==
  /\ req[r].op = "create_order"
  /\ req[r].pc = "validate"
  /\ \E resp \in validate_items_availability(req[r].validating), now \in ServiceTimes :
       LET availability == resp.availability
           got == [req[r] EXCEPT !.availability = availability]
           fails == resp.exc # ""
       IN /\ req' = [req EXCEPT ![r] =
               IF resp.exc # ""
               THEN Raise(got, resp.exc, {})
               ELSE [got EXCEPT
                       !.order = Order_create(nextOrderId, req[r].customer_id,
                                              req[r].items, now),
                       !.pc = "save",
                       !.trace = @ \o <<"mutate", "save">>]]
          /\ nextOrderId' = IF fails THEN nextOrderId ELSE nextOrderId + 1
  /\ UNCHANGED <<portCall, agg, aggLast, repo, events, started, nextItemId>>

\* lines 48-67: takes the availability, rejects if any entry is false, builds the
\* order with the factory, awaits save
create_order_validated(r) ==
  /\ req[r].op = "create_order"
  /\ req[r].pc = "validate"
  /\ \E resp \in validate_items_availability(req[r].validating), now \in ServiceTimes :
       LET availability == resp.availability
           unavailable_items == availability.no
           got == [req[r] EXCEPT !.availability = availability]
           fails == resp.exc # "" \/ unavailable_items # {}
       IN /\ req' = [req EXCEPT ![r] =
               IF resp.exc # ""
               THEN Raise(got, resp.exc, {})
               ELSE IF unavailable_items # {}
               THEN Raise(got, "InventoryValidationException", unavailable_items)
               ELSE [got EXCEPT
                       !.order = Order_create(nextOrderId, req[r].customer_id,
                                              req[r].items, now),
                       !.pc = "save",
                       !.trace = @ \o <<"mutate", "save">>]]
          /\ nextOrderId' = IF fails THEN nextOrderId ELSE nextOrderId + 1
  /\ UNCHANGED <<portCall, agg, aggLast, repo, events, started, nextItemId>>

\* lines 67-93: save has committed; builds order.created from the saved order,
\* awaits publish
create_order_saved(r) ==
  /\ req[r].op = "create_order"
  /\ req[r].pc = "save"
  /\ \E out \in save(req[r].order) :
       /\ repo' = out.repo
       /\ req' = [req EXCEPT ![r] =
            IF out.exc # ""
            THEN Raise(req[r], out.exc, {})
            ELSE [req[r] EXCEPT
                    !.event = OrderCreatedEvent_create(req[r].order),
                    !.pc = "publish",
                    !.trace = @ \o <<"save_ok", "publish">>]]
  /\ UNCHANGED <<portCall, agg, aggLast, events, started, nextOrderId, nextItemId>>

\* line 95: the event is published; returns the order
create_order_published(r) ==
  /\ req[r].op = "create_order"
  /\ req[r].pc = "publish"
  /\ \E out \in publish_event(req[r].event) :
       /\ events' = out.events
       /\ req' = [req EXCEPT ![r] =
            IF out.exc # ""
            THEN Raise(req[r], out.exc, {})
            ELSE [req[r] EXCEPT !.pc = "done", !.trace = @ \o <<"publish_ok">>]]
  /\ UNCHANGED <<portCall, agg, aggLast, repo, started, nextOrderId, nextItemId>>

(***************************************************************************)
(* OrderService.add_item_to_order                                          *)
(***************************************************************************)
\* lines 97-100: awaits find_by_id
add_item_to_order(r) ==
  /\ CanStart(r)
  /\ \E order_id \in 1..nextOrderId, spec \in ItemSpecs :
       req' = [req EXCEPT ![r] =
                 [Idle EXCEPT !.op = "add_item_to_order", !.order_id = order_id,
                              !.items = MakeItems(<<spec>>, nextItemId),
                              !.pc = "find_by_id", !.trace = <<"find_by_id">>]]
  /\ started' = started + 1
  /\ UNCHANGED <<portCall, agg, aggLast, repo, events, nextOrderId>>
  /\ nextItemId' = nextItemId + 1

\* add_item_to_order as it would be without its own state guard, leaving the
\* guard to Order.add_item
add_item_to_order_found_unguarded(r) ==
  /\ req[r].op = "add_item_to_order"
  /\ req[r].pc = "find_by_id"
  /\ LET order == find_by_id(req[r].order_id)
         got == [req[r] EXCEPT !.order = order]
     IN req' = [req EXCEPT ![r] =
          IF order = NoOrder
          THEN Raise(got, "OrderNotFoundException", {})
          ELSE [got EXCEPT !.pc = "validate", !.validating = req[r].items,
                           !.trace = @ \o <<"validate">>]]
  /\ UNCHANGED <<portCall, agg, aggLast, repo, events, started, nextOrderId, nextItemId>>

\* add_item_to_order as it would be without the inventory call: adds the item
\* and awaits update
add_item_to_order_found_unvalidated(r) ==
  /\ req[r].op = "add_item_to_order"
  /\ req[r].pc = "find_by_id"
  /\ LET order == find_by_id(req[r].order_id)
         got == [req[r] EXCEPT !.order = order]
         added == add_item(order, req[r].items[1])
     IN req' = [req EXCEPT ![r] =
          IF order = NoOrder
          THEN Raise(got, "OrderNotFoundException", {})
          ELSE IF order.status # "CREATED" /\ order.status # "PENDING"
          THEN Raise(got, "InvalidOrderStateException", {})
          ELSE [got EXCEPT !.order = added.order, !.pc = "update_select",
                           !.trace = @ \o <<"mutate", "update">>]]
  /\ UNCHANGED <<portCall, agg, aggLast, repo, events, started, nextOrderId, nextItemId>>

\* lines 100-111: not-found guard, state guard, awaits the inventory with the new item
add_item_to_order_found(r) ==
  /\ req[r].op = "add_item_to_order"
  /\ req[r].pc = "find_by_id"
  /\ LET order == find_by_id(req[r].order_id)
         got == [req[r] EXCEPT !.order = order]
     IN req' = [req EXCEPT ![r] =
          IF order = NoOrder
          THEN Raise(got, "OrderNotFoundException", {})
          ELSE IF order.status # "CREATED" /\ order.status # "PENDING"
          THEN Raise(got, "InvalidOrderStateException", {})
          ELSE [got EXCEPT !.pc = "validate", !.validating = req[r].items,
                           !.trace = @ \o <<"validate">>]]
  /\ UNCHANGED <<portCall, agg, aggLast, repo, events, started, nextOrderId, nextItemId>>

\* lines 111-122: availability.get(item.product_id, False), order.add_item, awaits update
add_item_to_order_validated(r) ==
  /\ req[r].op = "add_item_to_order"
  /\ req[r].pc = "validate"
  /\ \E resp \in validate_items_availability(req[r].validating) :
       LET availability == resp.availability
           item == req[r].items[1]
           got == [req[r] EXCEPT !.availability = availability]
           added == add_item(req[r].order, item)
       IN req' = [req EXCEPT ![r] =
            IF resp.exc # ""
            THEN Raise(got, resp.exc, {})
            ELSE IF item.product_id \notin availability.yes
            THEN Raise(got, "InventoryValidationException", {item.product_id})
            ELSE IF added.exc # ""
            THEN Raise(got, added.exc, {})
            ELSE [got EXCEPT !.order = added.order, !.pc = "update_select",
                             !.trace = @ \o <<"mutate", "update">>]]
  /\ UNCHANGED <<portCall, agg, aggLast, repo, events, started, nextOrderId, nextItemId>>

\* add_item_to_order as it would be if it published an event for the item
\* once update has committed
add_item_to_order_updated_publishing(r) ==
  /\ req[r].op = "add_item_to_order"
  /\ req[r].pc = "update_commit"
  /\ \E out \in update_commit(req[r].order, req[r].to_add, req[r].to_remove) :
       /\ repo' = out.repo
       /\ req' = [req EXCEPT ![r] =
            IF out.exc # ""
            THEN Raise(req[r], out.exc, {})
            ELSE [req[r] EXCEPT
                    !.pc = "done",
                    !.trace = @ \o <<"update_ok", "publish", "publish_ok">>]]
       /\ events' = IF out.exc # "" THEN events
                    ELSE Append(events, OrderStatusUpdatedEvent_create(
                                          req[r].order, req[r].order.status))
  /\ UNCHANGED <<portCall, agg, aggLast, started, nextOrderId, nextItemId>>

\* line 124: update has committed; returns the updated order
add_item_to_order_updated(r) ==
  /\ req[r].op = "add_item_to_order"
  /\ req[r].pc = "update_commit"
  /\ \E out \in update_commit(req[r].order, req[r].to_add, req[r].to_remove) :
       /\ repo' = out.repo
       /\ req' = [req EXCEPT ![r] =
            IF out.exc # ""
            THEN Raise(req[r], out.exc, {})
            ELSE [req[r] EXCEPT !.pc = "done", !.trace = @ \o <<"update_ok">>]]
  /\ UNCHANGED <<portCall, agg, aggLast, events, started, nextOrderId, nextItemId>>

(***************************************************************************)
(* OrderService.remove_item_from_order                                     *)
(***************************************************************************)
\* lines 126-129: awaits find_by_id
remove_item_from_order(r) ==
  /\ CanStart(r)
  /\ \E order_id \in 1..nextOrderId, item_id \in 1..nextItemId :
       req' = [req EXCEPT ![r] =
                 [Idle EXCEPT !.op = "remove_item_from_order", !.order_id = order_id, !.item_id = item_id,
                              !.pc = "find_by_id", !.trace = <<"find_by_id">>]]
  /\ started' = started + 1
  /\ UNCHANGED <<portCall, agg, aggLast, repo, events, nextOrderId, nextItemId>>

\* lines 129-143: not-found guard, state guard, order.remove_item, awaits update
remove_item_from_order_found(r) ==
  /\ req[r].op = "remove_item_from_order"
  /\ req[r].pc = "find_by_id"
  /\ LET order == find_by_id(req[r].order_id)
         got == [req[r] EXCEPT !.order = order]
         removed == remove_item(order, req[r].item_id)
     IN req' = [req EXCEPT ![r] =
          IF order = NoOrder
          THEN Raise(got, "OrderNotFoundException", {})
          ELSE IF order.status # "CREATED" /\ order.status # "PENDING"
          THEN Raise(got, "InvalidOrderStateException", {})
          ELSE IF removed.exc # ""
          THEN Raise(got, removed.exc, {})
          ELSE [got EXCEPT !.order = removed.order, !.pc = "update_select",
                           !.trace = @ \o <<"mutate", "update">>]]
  /\ UNCHANGED <<portCall, agg, aggLast, repo, events, started, nextOrderId, nextItemId>>

\* line 145: update has committed; returns the updated order
remove_item_from_order_updated(r) ==
  /\ req[r].op = "remove_item_from_order"
  /\ req[r].pc = "update_commit"
  /\ \E out \in update_commit(req[r].order, req[r].to_add, req[r].to_remove) :
       /\ repo' = out.repo
       /\ req' = [req EXCEPT ![r] =
            IF out.exc # ""
            THEN Raise(req[r], out.exc, {})
            ELSE [req[r] EXCEPT !.pc = "done", !.trace = @ \o <<"update_ok">>]]
  /\ UNCHANGED <<portCall, agg, aggLast, events, started, nextOrderId, nextItemId>>

(***************************************************************************)
(* OrderService.update_order_status                                        *)
(***************************************************************************)
\* lines 147-150: awaits find_by_id
update_order_status(r) ==
  /\ CanStart(r)
  /\ \E order_id \in 1..nextOrderId, status \in OrderStatus :
       req' = [req EXCEPT ![r] =
                 [Idle EXCEPT !.op = "update_order_status", !.order_id = order_id, !.status = status,
                              !.pc = "find_by_id", !.trace = <<"find_by_id">>]]
  /\ started' = started + 1
  /\ UNCHANGED <<portCall, agg, aggLast, repo, events, nextOrderId, nextItemId>>

\* update_order_status as it would be if it published order.status_updated
\* before awaiting update
update_order_status_found_publishing_first(r) ==
  /\ req[r].op = "update_order_status"
  /\ req[r].pc = "find_by_id"
  /\ \E now \in ServiceTimes :
       LET order == find_by_id(req[r].order_id)
           got == [req[r] EXCEPT !.order = order]
           updated == update_status(order, req[r].status, now).order
       IN req' = [req EXCEPT ![r] =
            IF order = NoOrder
            THEN Raise(got, "OrderNotFoundException", {})
            ELSE [got EXCEPT
                    !.previous_status = order.status,
                    !.order = updated,
                    !.event = OrderStatusUpdatedEvent_create(updated, order.status),
                    !.pc = "publish",
                    !.trace = @ \o <<"mutate", "publish">>]]
  /\ UNCHANGED <<portCall, agg, aggLast, repo, events, started, nextOrderId, nextItemId>>

\* lines 150-161: not-found guard, remembers the status read, order.update_status,
\* awaits update
update_order_status_found(r) ==
  /\ req[r].op = "update_order_status"
  /\ req[r].pc = "find_by_id"
  /\ \E now \in ServiceTimes :
       LET order == find_by_id(req[r].order_id)
           got == [req[r] EXCEPT !.order = order]
       IN req' = [req EXCEPT ![r] =
            IF order = NoOrder
            THEN Raise(got, "OrderNotFoundException", {})
            ELSE [got EXCEPT
                    !.previous_status = order.status,
                    !.order = update_status(order, req[r].status, now).order,
                    !.pc = "update_select",
                    !.trace = @ \o <<"mutate", "update">>]]
  /\ UNCHANGED <<portCall, agg, aggLast, repo, events, started, nextOrderId, nextItemId>>

\* lines 161-174: update has committed; builds order.status_updated, awaits publish
update_order_status_updated(r) ==
  /\ req[r].op = "update_order_status"
  /\ req[r].pc = "update_commit"
  /\ \E out \in update_commit(req[r].order, req[r].to_add, req[r].to_remove) :
       /\ repo' = out.repo
       /\ req' = [req EXCEPT ![r] =
            IF out.exc # ""
            THEN Raise(req[r], out.exc, {})
            ELSE [req[r] EXCEPT
                    !.event = OrderStatusUpdatedEvent_create(req[r].order,
                                                   req[r].previous_status),
                    !.pc = "publish",
                    !.trace = @ \o <<"update_ok", "publish">>]]
  /\ UNCHANGED <<portCall, agg, aggLast, events, started, nextOrderId, nextItemId>>

\* line 176: the event is published; returns the order
update_order_status_published(r) ==
  /\ req[r].op = "update_order_status"
  /\ req[r].pc = "publish"
  /\ \E out \in publish_event(req[r].event) :
       /\ events' = out.events
       /\ req' = [req EXCEPT ![r] =
            IF out.exc # ""
            THEN Raise(req[r], out.exc, {})
            ELSE [req[r] EXCEPT !.pc = "done", !.trace = @ \o <<"publish_ok">>]]
  /\ UNCHANGED <<portCall, agg, aggLast, repo, started, nextOrderId, nextItemId>>

(***************************************************************************)
(* OrderService.cancel_order                                               *)
(***************************************************************************)
\* lines 178-181: awaits find_by_id
cancel_order(r) ==
  /\ CanStart(r)
  /\ \E order_id \in 1..nextOrderId :
       req' = [req EXCEPT ![r] =
                 [Idle EXCEPT !.op = "cancel_order", !.order_id = order_id,
                              !.pc = "find_by_id", !.trace = <<"find_by_id">>]]
  /\ started' = started + 1
  /\ UNCHANGED <<portCall, agg, aggLast, repo, events, nextOrderId, nextItemId>>

\* cancel_order as it would be if it returned an already cancelled order at
\* once, without update or event
cancel_order_found_skipping_cancelled(r) ==
  /\ req[r].op = "cancel_order"
  /\ req[r].pc = "find_by_id"
  /\ \E now \in ServiceTimes :
       LET order == find_by_id(req[r].order_id)
           got == [req[r] EXCEPT !.order = order]
           cancelled == cancel(order, now)
       IN req' = [req EXCEPT ![r] =
            IF order = NoOrder
            THEN Raise(got, "OrderNotFoundException", {})
            ELSE IF order.status = "CANCELLED"
            THEN [got EXCEPT !.pc = "done"]
            ELSE IF cancelled.exc # ""
            THEN Raise(got, cancelled.exc, {})
            ELSE [got EXCEPT
                    !.previous_status = order.status,
                    !.order = cancelled.order,
                    !.pc = "update_select",
                    !.trace = @ \o <<"mutate", "update">>]]
  /\ UNCHANGED <<portCall, agg, aggLast, repo, events, started, nextOrderId, nextItemId>>

\* lines 181-192: not-found guard, order.cancel(), awaits update
cancel_order_found(r) ==
  /\ req[r].op = "cancel_order"
  /\ req[r].pc = "find_by_id"
  /\ \E now \in ServiceTimes :
       LET order == find_by_id(req[r].order_id)
           got == [req[r] EXCEPT !.order = order]
           cancelled == cancel(order, now)
       IN req' = [req EXCEPT ![r] =
            IF order = NoOrder
            THEN Raise(got, "OrderNotFoundException", {})
            ELSE IF cancelled.exc # ""
            THEN Raise(got, cancelled.exc, {})
            ELSE [got EXCEPT
                    !.previous_status = order.status,
                    !.order = cancelled.order,
                    !.pc = "update_select",
                    !.trace = @ \o <<"mutate", "update">>]]
  /\ UNCHANGED <<portCall, agg, aggLast, repo, events, started, nextOrderId, nextItemId>>

\* cancel_order as it would be if it swallowed a failure of update and went on
\* to publish
cancel_order_updated_swallowing_failure(r) ==
  /\ req[r].op = "cancel_order"
  /\ req[r].pc = "update_commit"
  /\ \E out \in update_commit(req[r].order, req[r].to_add, req[r].to_remove) :
       /\ repo' = out.repo
       /\ req' = [req EXCEPT ![r] =
            [req[r] EXCEPT
               !.event = OrderCancelledEvent_create(req[r].order),
               !.pc = "publish",
               !.trace = @ \o (IF out.exc # "" THEN <<"publish">>
                               ELSE <<"update_ok", "publish">>)]]
  /\ UNCHANGED <<portCall, agg, aggLast, events, started, nextOrderId, nextItemId>>

\* lines 192-203: update has committed; builds order.cancelled, awaits publish
cancel_order_updated(r) ==
  /\ req[r].op = "cancel_order"
  /\ req[r].pc = "update_commit"
  /\ \E out \in update_commit(req[r].order, req[r].to_add, req[r].to_remove) :
       /\ repo' = out.repo
       /\ req' = [req EXCEPT ![r] =
            IF out.exc # ""
            THEN Raise(req[r], out.exc, {})
            ELSE [req[r] EXCEPT
                    !.event = OrderCancelledEvent_create(req[r].order),
                    !.pc = "publish",
                    !.trace = @ \o <<"update_ok", "publish">>]]
  /\ UNCHANGED <<portCall, agg, aggLast, events, started, nextOrderId, nextItemId>>

\* cancel_order as it would be if it published order.cancelled twice
cancel_order_published_twice(r) ==
  /\ req[r].op = "cancel_order"
  /\ req[r].pc = "publish"
  /\ \E out \in publish_event(req[r].event) :
       /\ events' = IF out.exc # "" THEN out.events
                    ELSE Append(out.events, req[r].event)
       /\ req' = [req EXCEPT ![r] =
            IF out.exc # ""
            THEN Raise(req[r], out.exc, {})
            ELSE [req[r] EXCEPT
                    !.pc = "done",
                    !.trace = @ \o <<"publish_ok", "publish", "publish_ok">>]]
  /\ UNCHANGED <<portCall, agg, aggLast, repo, started, nextOrderId, nextItemId>>

\* line 205: the event is published; returns the order
cancel_order_published(r) ==
  /\ req[r].op = "cancel_order"
  /\ req[r].pc = "publish"
  /\ \E out \in publish_event(req[r].event) :
       /\ events' = out.events
       /\ req' = [req EXCEPT ![r] =
            IF out.exc # ""
            THEN Raise(req[r], out.exc, {})
            ELSE [req[r] EXCEPT !.pc = "done", !.trace = @ \o <<"publish_ok">>]]
  /\ UNCHANGED <<portCall, agg, aggLast, repo, started, nextOrderId, nextItemId>>

(***************************************************************************)
(* OrderService.confirm_order                                              *)
(***************************************************************************)
\* lines 207-210: awaits find_by_id
confirm_order(r) ==
  /\ CanStart(r)
  /\ \E order_id \in 1..nextOrderId :
       req' = [req EXCEPT ![r] =
                 [Idle EXCEPT !.op = "confirm_order", !.order_id = order_id,
                              !.pc = "find_by_id", !.trace = <<"find_by_id">>]]
  /\ started' = started + 1
  /\ UNCHANGED <<portCall, agg, aggLast, repo, events, nextOrderId, nextItemId>>

\* confirm_order as it would be without the not-found guard
confirm_order_found_unguarded(r) ==
  /\ req[r].op = "confirm_order"
  /\ req[r].pc = "find_by_id"
  /\ LET order == find_by_id(req[r].order_id)
         got == [req[r] EXCEPT !.order = order]
     IN req' = [req EXCEPT ![r] =
          [got EXCEPT !.pc = "validate", !.validating = order.items,
                      !.trace = @ \o <<"validate">>]]
  /\ UNCHANGED <<portCall, agg, aggLast, repo, events, started, nextOrderId, nextItemId>>

\* lines 210-215: not-found guard, awaits the inventory with all current items
confirm_order_found(r) ==
  /\ req[r].op = "confirm_order"
  /\ req[r].pc = "find_by_id"
  /\ LET order == find_by_id(req[r].order_id)
         got == [req[r] EXCEPT !.order = order]
     IN req' = [req EXCEPT ![r] =
          IF order = NoOrder
          THEN Raise(got, "OrderNotFoundException", {})
          ELSE [got EXCEPT !.pc = "validate", !.validating = order.items,
                           !.trace = @ \o <<"validate">>]]
  /\ UNCHANGED <<portCall, agg, aggLast, repo, events, started, nextOrderId, nextItemId>>

\* confirm_order as it would be without the check of the availability entries
confirm_order_validated_unchecked(r) ==
  /\ req[r].op = "confirm_order"
  /\ req[r].pc = "validate"
  /\ \E resp \in validate_items_availability(req[r].validating), now \in ServiceTimes :
       LET availability == resp.availability
           order == req[r].order
           got == [req[r] EXCEPT !.availability = availability]
       IN req' = [req EXCEPT ![r] =
            IF resp.exc # ""
            THEN Raise(got, resp.exc, {})
            ELSE [got EXCEPT
                    !.previous_status = order.status,
                    !.order = update_status(order, "CONFIRMED", now).order,
                    !.pc = "update_select",
                    !.trace = @ \o <<"mutate", "update">>]]
  /\ UNCHANGED <<portCall, agg, aggLast, repo, events, started, nextOrderId, nextItemId>>

\* lines 215-232: takes the availability, rejects if any entry is false, remembers
\* the status read, order.update_status(CONFIRMED), awaits update
confirm_order_validated(r) ==
  /\ req[r].op = "confirm_order"
  /\ req[r].pc = "validate"
  /\ \E resp \in validate_items_availability(req[r].validating), now \in ServiceTimes :
       LET availability == resp.availability
           unavailable_items == availability.no
           order == req[r].order
           got == [req[r] EXCEPT !.availability = availability]
       IN req' = [req EXCEPT ![r] =
            IF resp.exc # ""
            THEN Raise(got, resp.exc, {})
            ELSE IF unavailable_items # {}
            THEN Raise(got, "InventoryValidationException", unavailable_items)
            ELSE [got EXCEPT
                    !.previous_status = order.status,
                    !.order = update_status(order, "CONFIRMED", now).order,
                    !.pc = "update_select",
                    !.trace = @ \o <<"mutate", "update">>]]
  /\ UNCHANGED <<portCall, agg, aggLast, repo, events, started, nextOrderId, nextItemId>>

\* lines 232-251: update has committed; builds both events, awaits publish
confirm_order_updated(r) ==
  /\ req[r].op = "confirm_order"
  /\ req[r].pc = "update_commit"
  /\ \E out \in update_commit(req[r].order, req[r].to_add, req[r].to_remove) :
       /\ repo' = out.repo
       /\ req' = [req EXCEPT ![r] =
            IF out.exc # ""
            THEN Raise(req[r], out.exc, {})
            ELSE [req[r] EXCEPT
                    !.event = OrderStatusUpdatedEvent_create(req[r].order,
                                                   req[r].previous_status),
                    !.pc = "publish",
                    !.trace = @ \o <<"update_ok", "publish">>]]
  /\ UNCHANGED <<portCall, agg, aggLast, events, started, nextOrderId, nextItemId>>

\* confirm_order as it would be if it returned after publishing
\* order.status_updated, without publishing order.confirmed
confirm_order_published_status_only(r) ==
  /\ req[r].op = "confirm_order"
  /\ req[r].pc = "publish"
  /\ req[r].event.event_type = "order.status_updated"
  /\ \E out \in publish_event(req[r].event) :
       /\ events' = out.events
       /\ req' = [req EXCEPT ![r] =
            IF out.exc # ""
            THEN Raise(req[r], out.exc, {})
            ELSE [req[r] EXCEPT !.pc = "done", !.trace = @ \o <<"publish_ok">>]]
  /\ UNCHANGED <<portCall, agg, aggLast, repo, started, nextOrderId, nextItemId>>

\* confirm_order as it would be if it swallowed a failure of the first publish
\* and went on to publish order.confirmed
confirm_order_published_status_swallowing_failure(r) ==
  /\ req[r].op = "confirm_order"
  /\ req[r].pc = "publish"
  /\ req[r].event.event_type = "order.status_updated"
  /\ \E out \in publish_event(req[r].event) :
       /\ events' = out.events
       /\ req' = [req EXCEPT ![r] =
            IF out.exc # ""
            THEN [req[r] EXCEPT
                    !.event = OrderConfirmedEvent_create(req[r].order),
                    !.trace = @ \o <<"publish">>]
            ELSE [req[r] EXCEPT
                    !.event = OrderConfirmedEvent_create(req[r].order),
                    !.trace = @ \o <<"publish_ok", "publish">>]]
  /\ UNCHANGED <<portCall, agg, aggLast, repo, started, nextOrderId, nextItemId>>

\* lines 248-256: order.status_updated is published; awaits the publish of
\* order.confirmed
confirm_order_published_status(r) ==
  /\ req[r].op = "confirm_order"
  /\ req[r].pc = "publish"
  /\ req[r].event.event_type = "order.status_updated"
  /\ \E out \in publish_event(req[r].event) :
       /\ events' = out.events
       /\ req' = [req EXCEPT ![r] =
            IF out.exc # ""
            THEN Raise(req[r], out.exc, {})
            ELSE [req[r] EXCEPT
                    !.event = OrderConfirmedEvent_create(req[r].order),
                    !.trace = @ \o <<"publish_ok", "publish">>]]
  /\ UNCHANGED <<portCall, agg, aggLast, repo, started, nextOrderId, nextItemId>>

\* line 258: the event is published; returns the order
confirm_order_published(r) ==
  /\ req[r].op = "confirm_order"
  /\ req[r].pc = "publish"
  /\ req[r].event.event_type = "order.confirmed"
  /\ \E out \in publish_event(req[r].event) :
       /\ events' = out.events
       /\ req' = [req EXCEPT ![r] =
            IF out.exc # ""
            THEN Raise(req[r], out.exc, {})
            ELSE [req[r] EXCEPT !.pc = "done", !.trace = @ \o <<"publish_ok">>]]
  /\ UNCHANGED <<portCall, agg, aggLast, repo, started, nextOrderId, nextItemId>>

\* The coroutine has returned or raised: the response is sent and the request
\* is over.  The requests still in flight are kept in the lowest slots.
respond(r) ==
  /\ req[r].pc = "done"
  /\ req' = [q \in Reqs |->
               IF q < r THEN req[q]
               ELSE IF q + 1 \in Reqs THEN req[q + 1]
               ELSE Idle]
  /\ UNCHANGED <<portCall, agg, aggLast, repo, events, started, nextOrderId, nextItemId>>

\* OrderController.cancel_order, its except clauses: the status code of the
\* response for what the use case raised (200 when it returned)
DomainExceptions ==
  {"OrderNotFoundException", "InvalidOrderStateException",
   "InventoryValidationException", "OrderCreationException"}

cancel_order_response(exc) ==
  IF exc = "" THEN 200
  ELSE IF exc = "OrderNotFoundException" THEN 404
  ELSE IF exc \in DomainExceptions THEN 400
  ELSE 500

(***************************************************************************)
(* The query service and the output adapters, each called on its own: one  *)
(* call is one step, its arguments and outcome are left in portCall.       *)
(***************************************************************************)
\* The rows the orders table may hold at the start of these calls, the
\* customers and statuses asked for (customer 3 and DELIVERED match no row)
StoredIds == {1, 2}
StoredCustomers == {1, 2}
QueryCustomers == {1, 2, 3}
StoredStatuses == {"CREATED", "CONFIRMED"}
QueryStatuses == {"CREATED", "CONFIRMED", "DELIVERED"}

\* status=None of get_orders_by_date_range
NoStatus == ""

StoredOrders(id) ==
  {[Order_create(id, c, MakeItems(<<(<<id, 1, 10>>)>>, id), t) EXCEPT !.status = s] :
     c \in StoredCustomers, t \in Times, s \in StoredStatuses}

\* No adapter or query called yet
NoPortCall ==
  [op |-> "", args |-> <<>>, exc |-> "", orders |-> {},
   availability |-> NoAvailability, mapping |-> FALSE, committed |-> FALSE]

\* A call, its arguments and the exception it raised ("" when it returned)
PortCall(op, args, exc) ==
  [NoPortCall EXCEPT !.op = op, !.args = args, !.exc = exc]

\* OrderRepository._model_to_entity: the entity is built column by column
model_to_entity(order_model) ==
  [id |-> order_model.id,
   customer_id |-> order_model.customer_id,
   items |-> [k \in 1..Len(order_model.items) |->
                [id |-> order_model.items[k].id,
                 product_id |-> order_model.items[k].product_id,
                 quantity |-> order_model.items[k].quantity,
                 unit_price |-> order_model.items[k].unit_price,
                 total_price |-> order_model.items[k].total_price]],
   status |-> order_model.status,
   total |-> OrderTotal(order_model.total.subtotal, order_model.total.tax,
                        order_model.total.total),
   created_at |-> order_model.created_at,
   updated_at |-> order_model.updated_at]

\* The rows of the orders table
order_models == {repo[id] : id \in {i \in OrderIds : repo[i] # NoOrder}}

\* OrderRepository.find_by_customer_id, find_by_status and find_by_date_range:
\* the entities of the rows the query selects (the queries have no ORDER BY,
\* the result is kept as a set)
find_by_customer_id(customer_id) ==
  {model_to_entity(m) : m \in {o \in order_models : o.customer_id = customer_id}}

find_by_status(status) ==
  {model_to_entity(m) : m \in {o \in order_models : o.status = status}}

find_by_date_range(start_date, end_date, status) ==
  {model_to_entity(m) :
     m \in {o \in order_models :
              /\ o.created_at >= start_date
              /\ o.created_at <= end_date
              /\ status # NoStatus => o.status = status}}

\* get_order_by_id as it would be if it answered an unknown id with an empty
\* order instead of raising
get_order_by_id_returning_missing ==
  /\ \E order_id \in OrderIds :
       LET order == find_by_id(order_id)
       IN portCall' = [PortCall("get_order_by_id", <<order_id>>, "")
                         EXCEPT !.orders = {model_to_entity(order)}]
  /\ UNCHANGED <<agg, aggLast, repo, req, events, started, nextOrderId, nextItemId>>

\* OrderQueryService.get_order_by_id
get_order_by_id ==
  /\ \E order_id \in OrderIds :
       LET order == find_by_id(order_id)
       IN portCall' =
            IF order = NoOrder
            THEN PortCall("get_order_by_id", <<order_id>>, "OrderNotFoundException")
            ELSE [PortCall("get_order_by_id", <<order_id>>, "")
                    EXCEPT !.orders = {model_to_entity(order)}]
  /\ UNCHANGED <<agg, aggLast, repo, req, events, started, nextOrderId, nextItemId>>

\* OrderQueryService.get_orders_by_customer_id
get_orders_by_customer_id ==
  /\ \E customer_id \in QueryCustomers :
       portCall' = [PortCall("get_orders_by_customer_id", <<customer_id>>, "")
                      EXCEPT !.orders = find_by_customer_id(customer_id)]
  /\ UNCHANGED <<agg, aggLast, repo, req, events, started, nextOrderId, nextItemId>>

\* OrderQueryService.get_orders_by_status
get_orders_by_status ==
  /\ \E status \in QueryStatuses :
       portCall' = [PortCall("get_orders_by_status", <<status>>, "")
                      EXCEPT !.orders = find_by_status(status)]
  /\ UNCHANGED <<agg, aggLast, repo, req, events, started, nextOrderId, nextItemId>>

\* OrderQueryService.get_orders_by_date_range
get_orders_by_date_range ==
  /\ \E start_date \in Times, end_date \in Times,
        status \in QueryStatuses \cup {NoStatus} :
       portCall' = [PortCall("get_orders_by_date_range",
                             <<start_date, end_date, status>>, "")
                      EXCEPT !.orders = find_by_date_range(start_date, end_date, status)]
  /\ UNCHANGED <<agg, aggLast, repo, req, events, started, nextOrderId, nextItemId>>

\* OrderRepository.update as it would be if it inserted the order it does not
\* find instead of raising
OrderRepository_update_upserting ==
  /\ \E order_id \in OrderIds, status \in StoredStatuses, keep_items \in BOOLEAN :
       LET order_model == repo[order_id]
           read == IF order_model = NoOrder
                   THEN Order_create(order_id, 1, <<>>, 1)
                   ELSE model_to_entity(order_model)
           order == recalculate_total(
                      [read EXCEPT !.status = status,
                                   !.items = IF keep_items THEN @ ELSE <<>>])
       IN /\ repo' = [repo EXCEPT ![order_id] = order]
          /\ portCall' = [PortCall("update", <<order_id>>, "")
                            EXCEPT !.orders = {order}, !.committed = TRUE]
  /\ UNCHANGED <<agg, aggLast, req, events, started, nextOrderId, nextItemId>>

\* OrderRepository.update, the whole method: the order given is one read
\* earlier (or one that was never stored) with another status and, possibly,
\* without its items
OrderRepository_update ==
  /\ \E order_id \in OrderIds, status \in StoredStatuses, keep_items \in BOOLEAN :
       LET order_model == repo[order_id]
           read == IF order_model = NoOrder
                   THEN Order_create(order_id, 1, <<>>, 1)
                   ELSE model_to_entity(order_model)
           order == recalculate_total(
                      [read EXCEPT !.status = status,
                                   !.items = IF keep_items THEN @ ELSE <<>>])
           existing_item_ids == ItemIdsOf(order_model.items)
           updated_item_ids == ItemIdsOf(order.items)
           to_add == SelectSeq(order.items, LAMBDA it : it.id \notin existing_item_ids)
           to_remove == existing_item_ids \ updated_item_ids
       IN IF order_model = NoOrder
          THEN /\ repo' = repo
               /\ portCall' = PortCall("update", <<order_id>>, "ValueError")
          ELSE \E out \in update_commit(order, to_add, to_remove) :
                 /\ repo' = out.repo
                 /\ portCall' = IF out.exc # ""
                                THEN PortCall("update", <<order_id>>, out.exc)
                                ELSE [PortCall("update", <<order_id>>, "")
                                        EXCEPT !.orders = {order}, !.committed = TRUE]
  /\ UNCHANGED <<agg, aggLast, req, events, started, nextOrderId, nextItemId>>

\* OrderRepository.delete: the row and, by the cascade of its relationship,
\* its items are deleted and the deletion committed; or the database raises
\* and nothing is deleted.  Nothing is done when there is no such row.
OrderRepository_delete ==
  /\ \E order_id \in OrderIds :
       IF repo[order_id] = NoOrder
       THEN /\ repo' = repo
            /\ portCall' = PortCall("delete", <<order_id>>, "")
       ELSE \/ /\ repo' = [repo EXCEPT ![order_id] = NoOrder]
               /\ portCall' = [PortCall("delete", <<order_id>>, "")
                                 EXCEPT !.committed = TRUE]
            \/ /\ repo' = repo
               /\ portCall' = PortCall("delete", <<order_id>>, "RepositoryError")
  /\ UNCHANGED <<agg, aggLast, req, events, started, nextOrderId, nextItemId>>

\* What the call of the inventory service can come to: httpx raises a
\* RequestError (no connection, timeout), or a response arrives with a status
\* code and a body: not JSON, the JSON value null, or a JSON object, with or
\* without a "message", whose "availability" says true for the products in
\* yes and false for those in no
HttpOutcomes(items) ==
  {[kind |-> "RequestError", status_code |-> 0, body |-> "", message |-> FALSE,
    yes |-> {}, no |-> {}]}
  \cup {[kind |-> "response", status_code |-> code, body |-> body, message |-> FALSE,
         yes |-> {}, no |-> {}] :
          code \in {200, 500}, body \in {"not_json", "null"}}
  \cup {[kind |-> "response", status_code |-> code, body |-> "object",
         message |-> message, yes |-> kv[2], no |-> kv[1] \ kv[2]] :
          code \in {200, 500}, message \in BOOLEAN,
          kv \in {p \in (SUBSET ProductIds(items)) \X (SUBSET ProductIds(items)) :
                    p[2] \subseteq p[1]}}

\* InventoryService.validate_items_availability on an outcome of the call
InventoryService_answer(items, http) ==
  LET op == "validate_items_availability"
      args == <<items>>
  IN IF http.kind = "RequestError"
     THEN PortCall(op, args, "InventoryValidationException")
     ELSE IF http.status_code # 200
     THEN IF http.body = "not_json"
          THEN PortCall(op, args, "InventoryValidationException")
          ELSE IF http.body = "null"
          THEN PortCall(op, args, "TypeError")
          ELSE PortCall(op, args, "InventoryValidationException")
     ELSE IF http.body = "not_json"
          THEN PortCall(op, args, "JSONDecodeError")
          ELSE IF http.body = "null"
          THEN PortCall(op, args, "AttributeError")
          ELSE [PortCall(op, args, "")
                  EXCEPT !.mapping = TRUE,
                         !.availability =
                            [yes |-> ProductIds(items) \cap http.yes,
                             no |-> ProductIds(items) \ http.yes]]

InventoryService_validate_items_availability ==
  /\ \E specs \in CreateItemSpecs, firstId \in ItemIds :
       LET items == MakeItems(specs, firstId)
       IN \E http \in HttpOutcomes(items) :
            portCall' = [InventoryService_answer(items, http)
                           EXCEPT !.args = <<items, http>>]
  /\ UNCHANGED <<agg, aggLast, repo, req, events, started, nextOrderId, nextItemId>>

(***************************************************************************)
(* Specifications.                                                         *)
(***************************************************************************)
\* The orders table at the start holds one order as create_order stores it:
\* one item of quantity 2 at unit price 10, status CREATED.
StoredOrder == Order_create(1, 1, MakeItems(<<(<<2, 2, 10>>)>>, 1), 1)

Init ==
  /\ agg = Order_create(1, 1, <<>>, 1)
  /\ aggLast = NoCall
  /\ repo = [id \in OrderIds |-> IF id = 1 THEN StoredOrder ELSE NoOrder]
  /\ nextOrderId = 2
  /\ nextItemId = 2
  /\ req = [r \in Reqs |-> Idle]
  /\ events = <<>>
  /\ started = 0
  /\ portCall = NoPortCall

Next ==
  \E r \in Reqs :
    \/ create_order(r)
    \/ create_order_validated(r)
    \/ create_order_saved(r)
    \/ create_order_published(r)
    \/ add_item_to_order(r)
    \/ add_item_to_order_found(r)
    \/ add_item_to_order_validated(r)
    \/ add_item_to_order_updated(r)
    \/ remove_item_from_order(r)
    \/ remove_item_from_order_found(r)
    \/ remove_item_from_order_updated(r)
    \/ update_order_status(r)
    \/ update_order_status_found(r)
    \/ update_order_status_updated(r)
    \/ update_order_status_published(r)
    \/ cancel_order(r)
    \/ cancel_order_found(r)
    \/ cancel_order_updated(r)
    \/ cancel_order_published(r)
    \/ confirm_order(r)
    \/ confirm_order_found(r)
    \/ confirm_order_validated(r)
    \/ confirm_order_updated(r)
    \/ confirm_order_published_status(r)
    \/ confirm_order_published(r)
    \/ OrderRepository_update_select(r)
    \/ respond(r)

Spec == Init /\ [][Next]_vars

\* The aggregate on its own
InitAgg ==
  /\ \E items \in SeqsUpTo(NewItems, MaxItems) :
       agg = Order_create(1, 1, items, 1)
  /\ aggLast = NoCall
  /\ repo = [id \in OrderIds |-> NoOrder]
  /\ req = [r \in Reqs |-> Idle]
  /\ events = <<>>
  /\ started = 0
  /\ portCall = NoPortCall
  /\ nextOrderId = 1
  /\ nextItemId = 1

NextAgg ==
  \/ AggAddItem
  \/ AggRemoveItem
  \/ AggUpdateStatus
  \/ AggCancel

SpecAgg == InitAgg /\ [][NextAgg]_vars

\* The query service and the adapters over any orders table of up to two rows
InitPorts ==
  /\ agg = Order_create(1, 1, <<>>, 1)
  /\ aggLast = NoCall
  /\ \E rows \in [StoredIds -> UNION {StoredOrders(id) : id \in StoredIds} \cup {NoOrder}] :
       /\ \A id \in StoredIds : rows[id] \in StoredOrders(id) \cup {NoOrder}
       /\ repo = [id \in OrderIds |-> IF id \in StoredIds THEN rows[id] ELSE NoOrder]
  /\ nextOrderId = 2
  /\ nextItemId = 2
  /\ req = [r \in Reqs |-> Idle]
  /\ events = <<>>
  /\ started = 0
  /\ portCall = NoPortCall

NextPorts ==
  \/ get_order_by_id
  \/ get_orders_by_customer_id
  \/ get_orders_by_status
  \/ get_orders_by_date_range
  \/ OrderRepository_update
  \/ OrderRepository_delete

SpecPorts == InitPorts /\ [][NextPorts]_vars

\* The inventory adapter over every list of items and every outcome of its call
InitInventory ==
  /\ agg = Order_create(1, 1, <<>>, 1)
  /\ aggLast = NoCall
  /\ repo = [id \in OrderIds |-> IF id = 1 THEN StoredOrder ELSE NoOrder]
  /\ nextOrderId = 2
  /\ nextItemId = 2
  /\ req = [r \in Reqs |-> Idle]
  /\ events = <<>>
  /\ started = 0
  /\ portCall = NoPortCall

NextInventory == InventoryService_validate_items_availability

SpecInventory == InitInventory /\ [][NextInventory]_vars

(***************************************************************************)
(* Properties of the aggregate (checked under SpecAgg).                    *)
(***************************************************************************)
TotalConsistent(order) ==
  /\ order.total.subtotal = sum_total_price(order.items)
  /\ order.total.tax * 100 = order.total.subtotal * TAX_RATE_PCT
  /\ order.total.total = order.total.subtotal + order.total.tax

\* C1: the order built by the factory, and the order after any sequence of
\* add_item, remove_item, update_status and cancel, has total.subtotal equal to
\* the sum of total_price over its current items, total.tax equal to 10% of the
\* subtotal and total.total equal to subtotal + tax.
C1_TotalInvariant == TotalConsistent(agg)

\* C1 witness: a remove_item has returned and left an order that still has an
\* item, with a total that is not zero.
C1_Witness ==
  /\ aggLast.op = "remove_item"
  /\ aggLast.exc = ""
  /\ Len(agg.items) = 1
  /\ agg.total.total = 22

\* C5 as stated: add_item and remove_item raise an InvalidOrderStateException
\* when the status is neither CREATED nor PENDING, and return otherwise.
C5_StateGuardRaisesInvalidState ==
  aggLast.op \in {"add_item", "remove_item"} =>
    IF CanModifyItems(aggLast.prev_status)
    THEN aggLast.exc = ""
    ELSE aggLast.exc = "InvalidOrderStateException"

\* C6: cancel() raises when the status is DELIVERED and leaves it DELIVERED; for
\* each of the six other statuses it returns and leaves the status CANCELLED.
C6_CancelTerminality ==
  aggLast.op = "cancel" =>
    IF aggLast.prev_status = "DELIVERED"
    THEN aggLast.exc # "" /\ agg.status = "DELIVERED"
    ELSE aggLast.exc = "" /\ agg.status = "CANCELLED"

\* C6 witness: cancel() has returned on an order that was already CANCELLED.
C6_Witness ==
  /\ aggLast.op = "cancel"
  /\ aggLast.prev_status = "CANCELLED"
  /\ aggLast.exc = ""
  /\ agg.status = "CANCELLED"

(***************************************************************************)
(* Properties of the use cases (checked under Spec).  A request's trace    *)
(* lists, in order, the calls it has made and the calls that have          *)
(* returned to it.                                                         *)
(***************************************************************************)
PersistCalls == {"save", "update"}
PersistReturns == {"save_ok", "update_ok"}

Rank(call) ==
  CASE call = "find_by_id" -> 0
    [] call = "validate" -> 1
    [] call = "mutate" -> 2
    [] call \in PersistCalls \cup PersistReturns -> 3
    [] OTHER -> 4

HasCall(t, calls) == \E i \in DOMAIN t : t[i] \in calls
HasCallBefore(t, j, calls) == \E i \in DOMAIN t : i < j /\ t[i] \in calls

\* C2: within one request the inventory validation comes before the mutation of
\* the aggregate, the mutation before the save/update call, and the save/update
\* call before any publish; nothing is persisted without a mutation before it
\* and nothing is published without a save/update call before it.
C2_ValidateMutatePersistPublish ==
  \A r \in Reqs :
    LET t == req[r].trace
    IN /\ \A i \in 1..(Len(t) - 1) : Rank(t[i]) <= Rank(t[i + 1])
       /\ \A j \in DOMAIN t :
            /\ t[j] \in PersistCalls => HasCallBefore(t, j, {"mutate"})
            /\ t[j] = "publish" => HasCallBefore(t, j, PersistCalls)

\* C2 witness: a confirm_order has returned after validating, mutating,
\* updating and publishing its two events.
C2_Witness ==
  \E r \in Reqs :
    /\ req[r].op = "confirm_order"
    /\ req[r].pc = "done"
    /\ req[r].exc = ""
    /\ req[r].trace = <<"find_by_id", "validate", "mutate", "update", "update_ok",
                        "publish", "publish_ok", "publish", "publish_ok">>

\* C3: a create_order whose availability mapping has an entry false ends with an
\* InventoryValidationException naming the unavailable products, has built no
\* order, has called neither save nor publish, and the step that raises leaves
\* the stored orders and the published events as they were.
C3_CreateUnavailableRejected ==
  /\ [](\A r \in Reqs :
          (req[r].op = "create_order" /\ req[r].availability.no # {}) =>
            /\ req[r].pc = "done"
            /\ req[r].exc = "InventoryValidationException"
            /\ req[r].details = req[r].availability.no
            /\ req[r].order = NoOrder
            /\ ~HasCall(req[r].trace, PersistCalls \cup {"publish"}))
  /\ [][\A r \in Reqs :
          (/\ req[r].op = "create_order"
           /\ req[r].pc = "validate"
           /\ req'[r].availability.no # {}) =>
            (repo' = repo /\ events' = events /\ nextOrderId' = nextOrderId)]_vars

\* C3 witness: a create_order of two items has ended after the inventory
\* reported one of them unavailable.
C3_Witness ==
  \E r \in Reqs :
    /\ req[r].op = "create_order"
    /\ req[r].pc = "done"
    /\ Len(req[r].items) = 2
    /\ req[r].availability.no = {2}
    /\ req[r].availability.yes = {1}

\* C4: a confirm_order whose re-validation has an entry false ends with an
\* InventoryValidationException listing the unavailable product ids, has called
\* neither update nor publish, and the step that raises leaves the stored
\* orders, the stored status among them, and the published events as they were.
C4_ConfirmUnavailableRejected ==
  /\ [](\A r \in Reqs :
          (req[r].op = "confirm_order" /\ req[r].availability.no # {}) =>
            /\ req[r].pc = "done"
            /\ req[r].exc = "InventoryValidationException"
            /\ req[r].details = req[r].availability.no
            /\ req[r].details \subseteq ProductIds(req[r].validating)
            /\ ~HasCall(req[r].trace, {"mutate", "publish"} \cup PersistCalls))
  /\ [][\A r \in Reqs :
          (/\ req[r].op = "confirm_order"
           /\ req[r].pc = "validate"
           /\ req'[r].availability.no # {}) =>
            (repo' = repo /\ events' = events)]_vars

\* C4 witness: a confirm_order has ended after the inventory reported the
\* order's item unavailable, and the stored order still has the status read.
C4_Witness ==
  \E r \in Reqs :
    /\ req[r].op = "confirm_order"
    /\ req[r].pc = "done"
    /\ req[r].availability.no # {}
    /\ req[r].exc = "InventoryValidationException"
    /\ repo[req[r].order_id].status = req[r].order.status

\* C7: a request publishes only after its save or update has returned; a
\* request whose save or update raised has published nothing.
C7_NoPublishWithoutPersist ==
  \A r \in Reqs :
    LET t == req[r].trace
    IN /\ \A j \in DOMAIN t :
            t[j] = "publish" => HasCallBefore(t, j, PersistReturns)
       /\ req[r].exc = "RepositoryError" =>
            /\ HasCall(t, PersistCalls)
            /\ ~HasCall(t, PersistReturns \cup {"publish", "publish_ok"})
            /\ req[r].event = NoEvent

\* C7 witness: the update of a cancel_order has raised, the request is over and
\* no event has been published.
C7_Witness ==
  \E r \in Reqs :
    /\ req[r].op = "cancel_order"
    /\ req[r].pc = "done"
    /\ req[r].exc = "RepositoryError"
    /\ events = <<>>

\* C8 as stated: in each of the six use cases save/update is called only after
\* an inventory validation of the same request that reported nothing unavailable.
C8_EveryUseCaseValidatesBeforePersisting ==
  \A r \in Reqs :
    LET t == req[r].trace
    IN \A j \in DOMAIN t :
         t[j] \in PersistCalls =>
           /\ HasCallBefore(t, j, {"validate"})
           /\ req[r].availability.no = {}

\* C8 amended: create_order, add_item_to_order and confirm_order call
\* save/update only after an inventory validation of the same request returned
\* with no entry false (for add_item_to_order: with the new item's entry true);
\* remove_item_from_order, update_order_status and cancel_order never call the
\* inventory.
C8_ValidatingUseCasesValidateBeforePersisting ==
  \A r \in Reqs :
    LET t == req[r].trace
    IN /\ req[r].op \in {"create_order", "add_item_to_order", "confirm_order"} =>
            \A j \in DOMAIN t :
              t[j] \in PersistCalls =>
                /\ HasCallBefore(t, j, {"validate"})
                /\ req[r].availability.no = {}
                /\ req[r].op = "add_item_to_order" =>
                     req[r].items[1].product_id \in req[r].availability.yes
       /\ req[r].op \in {"remove_item_from_order", "update_order_status",
                         "cancel_order"} =>
            ~HasCall(t, {"validate"})

\* C8 witness: an add_item_to_order has returned after its update committed.
C8_Witness ==
  \E r \in Reqs :
    /\ req[r].op = "add_item_to_order"
    /\ req[r].pc = "done"
    /\ req[r].exc = ""
    /\ HasCall(req[r].trace, {"update_ok"})
    /\ req[r].availability.yes = {req[r].items[1].product_id}

\* Two add_item_to_order requests on the same order have both returned, and
\* each had read the order before the other's update committed.
BothAddsReturned ==
  /\ \A r \in Reqs :
       /\ req[r].op = "add_item_to_order"
       /\ req[r].pc = "done"
       /\ req[r].exc = ""
  /\ req[1].order_id = req[2].order_id
  /\ req[2].items[1].id \notin ItemIdsOf(req[1].order.items)
  /\ req[1].items[1].id \notin ItemIdsOf(req[2].order.items)

C10_MissingEntryIsUnavailable ==
  \A r \in Reqs :
    (/\ req[r].op \in {"create_order", "add_item_to_order", "confirm_order"}
     /\ HasCall(req[r].trace, {"validate"})
     /\ req[r].pc # "validate"
     /\ \E p \in ProductIds(req[r].validating) :
          p \notin req[r].availability.yes \cup req[r].availability.no) =>
      /\ req[r].pc = "done"
      /\ req[r].exc = "InventoryValidationException"
      /\ ~HasCall(req[r].trace, PersistCalls)

\* The step of request r that commits its update (the response step, which
\* moves requests between slots, writes nothing).
CommitsUpdate(r, op) ==
  /\ req[r].op = op
  /\ req[r].pc = "update_commit"
  /\ req'[r].op = op
  /\ HasCall(req'[r].trace, {"update_ok"})

\* C11 as stated: no commit of a confirm_order or of a cancel_order changes the
\* status of a stored order whose status is DELIVERED.
C11_ConfirmAndCancelKeepDelivered ==
  [][\A r \in Reqs :
       ((CommitsUpdate(r, "confirm_order") \/ CommitsUpdate(r, "cancel_order"))
        /\ repo[req[r].order_id].status = "DELIVERED") =>
         repo'[req[r].order_id].status = "DELIVERED"]_vars

\* C12 as stated: a cancel_order that read an order of status DELIVERED ends
\* with an InvalidOrderStateException, answered as a bad request (400), after
\* calling neither update nor publish.
C12_CancelDeliveredIsInvalidState ==
  \A r \in Reqs :
    (/\ req[r].op = "cancel_order"
     /\ req[r].pc # "find_by_id"
     /\ req[r].order # NoOrder
     /\ req[r].order.status = "DELIVERED") =>
      /\ req[r].pc = "done"
      /\ req[r].exc = "InvalidOrderStateException"
      /\ cancel_order_response(req[r].exc) = 400
      /\ ~HasCall(req[r].trace, PersistCalls \cup {"publish"})

\* The step of request r in which its publish_event returns.
Publishes(r, op) ==
  /\ req[r].op = op
  /\ req[r].pc = "publish"
  /\ req'[r].op = op
  /\ req'[r].trace # req[r].trace

\* The commit leaves the stored items and total as they are when the stored
\* order still has the items and the total the request read.
CommitKeepsItemsAndTotal(r) ==
  LET id == req[r].order_id
  IN (repo[id].items = req[r].order.items /\ repo[id].total = req[r].order.total) =>
       (repo'[id].items = repo[id].items /\ repo'[id].total = repo[id].total)

\* C13: update_order_status on an existing order raises for no pair of current
\* and requested status (only a collaborator can fail it): the order it hands
\* to update has the requested status and the items and total read, the commit
\* stores the requested status and leaves items and total alone, and the
\* request publishes exactly one order.status_updated event, after the update,
\* with the status read as previous_status and the requested one as new_status.
C13_UpdateStatusUnconditional ==
  /\ [](\A r \in Reqs :
          (/\ req[r].op = "update_order_status"
           /\ req[r].pc # "find_by_id"
           /\ req[r].order # NoOrder) =>
            /\ req[r].exc \in {"", "RepositoryError", "PublishError"}
            /\ req[r].order.status = req[r].status
            /\ ~HasCall(req[r].trace, {"validate"})
            /\ (req[r].pc = "done" /\ req[r].exc = "") =>
                 /\ req[r].trace = <<"find_by_id", "mutate", "update", "update_ok",
                                     "publish", "publish_ok">>
                 /\ req[r].event.event_type = "order.status_updated"
                 /\ req[r].event.order_id = req[r].order_id
                 /\ req[r].event.previous_status = req[r].previous_status
                 /\ req[r].event.new_status = req[r].status)
  /\ [][\A r \in Reqs :
          /\ (/\ req[r].op = "update_order_status"
              /\ req[r].pc = "find_by_id"
              /\ req'[r].pc = "update_select") =>
               /\ req'[r].previous_status = repo[req[r].order_id].status
               /\ req'[r].order.items = repo[req[r].order_id].items
               /\ req'[r].order.total = repo[req[r].order_id].total
          /\ CommitsUpdate(r, "update_order_status") =>
               /\ repo'[req[r].order_id].status = req[r].status
               /\ CommitKeepsItemsAndTotal(r)
          /\ Publishes(r, "update_order_status") =>
               events' = Append(events, req[r].event)]_vars

\* C13 witness: an update_order_status that read DELIVERED and asked for
\* PENDING has returned, and the stored status is PENDING.
C13_Witness ==
  \E r \in Reqs :
    /\ req[r].op = "update_order_status"
    /\ req[r].pc = "done"
    /\ req[r].exc = ""
    /\ req[r].previous_status = "DELIVERED"
    /\ req[r].status = "PENDING"
    /\ repo[req[r].order_id].status = "PENDING"

\* C14: a confirm_order on an existing order calls the inventory once, with all
\* the items read; when nothing is reported unavailable it calls update once,
\* the commit stores CONFIRMED, and it publishes two events in this order:
\* order.status_updated (previous_status the status read, new_status
\* CONFIRMED), then order.confirmed.
C14_ConfirmHappyPath ==
  /\ [](\A r \in Reqs :
          req[r].op = "confirm_order" =>
            /\ HasCall(req[r].trace, {"validate"}) =>
                 req[r].validating = req[r].order.items
            /\ (req[r].pc = "publish" /\ ~HasCall(req[r].trace, {"publish_ok"})) =>
                 req[r].event = OrderStatusUpdatedEvent_create(
                                  [req[r].order EXCEPT !.status = "CONFIRMED"],
                                  req[r].previous_status)
            /\ (req[r].pc = "publish" /\ HasCall(req[r].trace, {"publish_ok"})) =>
                 req[r].event = OrderConfirmedEvent_create(req[r].order)
            /\ (req[r].pc = "done" /\ req[r].exc = "") =>
                 /\ req[r].trace = <<"find_by_id", "validate", "mutate", "update",
                                     "update_ok", "publish", "publish_ok",
                                     "publish", "publish_ok">>
                 /\ req[r].availability.no = {}
                 /\ req[r].order.status = "CONFIRMED"
                 /\ req[r].event.event_type = "order.confirmed")
  /\ [][\A r \in Reqs :
          /\ (/\ req[r].op = "confirm_order"
              /\ req[r].pc = "validate"
              /\ req'[r].pc = "update_select") =>
               /\ req'[r].previous_status = req[r].order.status
               /\ req'[r].order.items = req[r].order.items
          /\ CommitsUpdate(r, "confirm_order") =>
               repo'[req[r].order_id].status = "CONFIRMED"
          /\ Publishes(r, "confirm_order") =>
               events' = Append(events, req[r].event)]_vars

\* C14 witness: a confirm_order of the stored order has returned, the stored
\* status is CONFIRMED and the last two events are its two events.
C14_Witness ==
  \E r \in Reqs :
    /\ req[r].op = "confirm_order"
    /\ req[r].pc = "done"
    /\ req[r].exc = ""
    /\ req[r].availability.yes = ProductIds(req[r].validating)
    /\ repo[req[r].order_id].status = "CONFIRMED"
    /\ Len(events) >= 2
    /\ events[Len(events) - 1] =
         OrderStatusUpdatedEvent_create(req[r].order, req[r].previous_status)
    /\ events[Len(events)] = OrderConfirmedEvent_create(req[r].order)

\* The step of request r in which its save returns.
Saves(r) ==
  /\ req[r].op = "create_order"
  /\ req[r].pc = "save"
  /\ req'[r].op = "create_order"
  /\ HasCall(req'[r].trace, {"save_ok"})

\* C15: a create_order with a non-empty item list calls the inventory once with
\* the whole list; when nothing is reported unavailable it builds an order of
\* status CREATED with an id no stored order has, the submitted items and the
\* total computed from them (one item of quantity 2 at unit price 10: subtotal
\* 20, tax 2, total 22), calls save once, which stores that order, and
\* publishes one order.created event carrying its items, total and status.
C15_CreateHappyPath ==
  /\ [](\A r \in Reqs :
          (req[r].op = "create_order" /\ req[r].items # <<>>) =>
            /\ req[r].validating = req[r].items
            /\ req[r].order # NoOrder =>
                 /\ req[r].availability.no = {}
                 /\ req[r].order.status = "CREATED"
                 /\ req[r].order.customer_id = req[r].customer_id
                 /\ req[r].order.items = req[r].items
                 /\ TotalConsistent(req[r].order)
                 /\ (Len(req[r].items) = 1 /\ req[r].items[1].quantity = 2
                     /\ req[r].items[1].unit_price = 10) =>
                      req[r].order.total = OrderTotal(20, 2, 22)
                 /\ \A q \in Reqs \ {r} :
                      req[q].op = "create_order" => req[q].order.id # req[r].order.id
                 /\ req[r].pc = "save" => repo[req[r].order.id] = NoOrder
            /\ (req[r].pc = "done" /\ req[r].exc = "") =>
                 /\ req[r].trace = <<"validate", "mutate", "save", "save_ok",
                                     "publish", "publish_ok">>
                 /\ req[r].event.event_type = "order.created"
                 /\ req[r].event.order_id = req[r].order.id
                 /\ req[r].event.items = req[r].order.items
                 /\ req[r].event.total_amount = req[r].order.total.total
                 /\ req[r].event.status = req[r].order.status)
  /\ [][\A r \in Reqs :
          /\ Saves(r) => repo' = [repo EXCEPT ![req[r].order.id] = req[r].order]
          /\ Publishes(r, "create_order") =>
               events' = Append(events, req[r].event)]_vars

\* C15 witness: a create_order of one item of quantity 2 at unit price 10 has
\* returned; its order is stored with total 22 and its event is the last one.
C15_Witness ==
  \E r \in Reqs :
    /\ req[r].op = "create_order"
    /\ req[r].pc = "done"
    /\ req[r].exc = ""
    /\ Len(req[r].items) = 1
    /\ req[r].items[1].quantity = 2
    /\ req[r].order.total.total = 22
    /\ repo[req[r].order.id] = req[r].order
    /\ events # <<>>
    /\ events[Len(events)] = OrderCreatedEvent_create(req[r].order)

\* C16: a create_order with an empty item list ends with an
\* OrderCreationException having called no collaborator (no inventory
\* validation, no save, no publish) and built no order, although the factory
\* itself accepts an empty list and gives it a zero total.
C16_CreateEmptyRejected ==
  /\ \A r \in Reqs :
       (req[r].op = "create_order" /\ req[r].items = <<>>) =>
         /\ req[r].pc = "done"
         /\ req[r].exc = "OrderCreationException"
         /\ req[r].trace = <<>>
         /\ req[r].order = NoOrder
         /\ req[r].event = NoEvent
         /\ req[r].availability = NoAvailability
  /\ \A customer_id \in Customers :
       LET order == Order_create(nextOrderId, customer_id, <<>>, 1)
       IN /\ order.items = <<>>
          /\ order.status = "CREATED"
          /\ order.total = OrderTotal(0, 0, 0)

\* C16 witness: the first request of a run was a create_order with no items;
\* it has ended and the stored orders and the events are those of the start.
C16_Witness ==
  /\ started = 1
  /\ req[1].op = "create_order"
  /\ req[1].items = <<>>
  /\ req[1].pc = "done"
  /\ repo[1] = StoredOrder
  /\ \A id \in OrderIds \ {1} : repo[id] = NoOrder
  /\ events = <<>>

\* The order request r read, when r is an add_item_to_order that has added its
\* item to it: the items before the append.
ItemsBeforeAdd(q) == SubSeq(q.order.items, 1, Len(q.order.items) - 1)

\* C17: add_item_to_order checks first that the order exists (else
\* OrderNotFoundException), then that its status is CREATED or PENDING (else
\* InvalidOrderStateException, the inventory not called), then that the one new
\* item is available (the inventory called with exactly that item, else
\* InventoryValidationException); a request that fails calls no update; one
\* that passes hands to update the order read with the item appended and the
\* total recomputed, and the commit stores the item and that total.
C17_AddItemGuardsInOrder ==
  /\ [](\A r \in Reqs :
          (req[r].op = "add_item_to_order" /\ req[r].pc # "find_by_id") =>
            /\ req[r].order = NoOrder <=> req[r].exc = "OrderNotFoundException"
            /\ (req[r].order # NoOrder /\ ~CanModifyItems(req[r].order.status))
                 <=> req[r].exc = "InvalidOrderStateException"
            /\ req[r].exc \in {"OrderNotFoundException", "InvalidOrderStateException"} =>
                 (req[r].pc = "done" /\ req[r].trace = <<"find_by_id">>)
            /\ HasCall(req[r].trace, {"validate"}) =>
                 (req[r].validating = req[r].items /\ Len(req[r].validating) = 1)
            /\ req[r].exc = "InventoryValidationException" =>
                 /\ req[r].pc = "done"
                 /\ req[r].trace = <<"find_by_id", "validate">>
                 /\ req[r].items[1].product_id \notin req[r].availability.yes
            /\ HasCall(req[r].trace, {"update"}) =>
                 /\ req[r].items[1].product_id \in req[r].availability.yes
                 /\ req[r].order.items = Append(ItemsBeforeAdd(req[r]), req[r].items[1])
                 /\ TotalConsistent(req[r].order)
                 /\ req[r].exc \in {"", "RepositoryError"})
  /\ [][\A r \in Reqs :
          /\ (/\ req[r].op = "add_item_to_order"
              /\ req[r].pc = "validate"
              /\ req'[r].pc = "update_select") =>
               req'[r].order.items = Append(req[r].order.items, req[r].items[1])
          /\ CommitsUpdate(r, "add_item_to_order") =>
               LET id == req[r].order_id
               IN /\ req[r].items[1].id \in ItemIdsOf(repo'[id].items)
                  /\ repo'[id].total = req[r].order.total
                  /\ repo[id].items = ItemsBeforeAdd(req[r]) =>
                       (repo'[id].items = req[r].order.items
                        /\ TotalConsistent(repo'[id]))]_vars

\* C17 witness: an add_item_to_order has returned and the stored order is the
\* order read with the new item appended and a total that matches its items.
C17_Witness ==
  \E r \in Reqs :
    /\ req[r].op = "add_item_to_order"
    /\ req[r].pc = "done"
    /\ req[r].exc = ""
    /\ Len(req[r].order.items) = 2
    /\ repo[req[r].order_id].items = req[r].order.items
    /\ repo[req[r].order_id].total = req[r].order.total
    /\ TotalConsistent(repo[req[r].order_id])

Count(t, call) == Cardinality({i \in DOMAIN t : t[i] = call})

PublishingUseCases ==
  {"create_order", "update_order_status", "cancel_order", "confirm_order"}

\* C18: add_item_to_order and remove_item_from_order never call publish_event,
\* remove_item_from_order never calls the inventory; create_order,
\* update_order_status and cancel_order publish one event and confirm_order
\* two, and every event published is published by one of these four.
C18_OnlyOrderLevelUseCasesPublish ==
  /\ [](\A r \in Reqs :
          LET t == req[r].trace
              returned == req[r].pc = "done" /\ req[r].exc = ""
          IN /\ req[r].op \in {"add_item_to_order", "remove_item_from_order"} =>
                  (~HasCall(t, {"publish", "publish_ok"}) /\ req[r].event = NoEvent)
             /\ req[r].op = "remove_item_from_order" =>
                  (~HasCall(t, {"validate"}) /\ req[r].availability = NoAvailability)
             /\ req[r].op \in {"create_order", "update_order_status", "cancel_order"} =>
                  /\ Count(t, "publish") <= 1
                  /\ returned => Count(t, "publish_ok") = 1
             /\ req[r].op = "confirm_order" =>
                  /\ Count(t, "publish") <= 2
                  /\ returned => Count(t, "publish_ok") = 2)
  /\ [][events' # events =>
          \E r \in Reqs :
            /\ \E op \in PublishingUseCases : Publishes(r, op)
            /\ events' = Append(events, req[r].event)]_vars

\* C18 witness: a remove_item_from_order, the only request so far, has
\* returned after its update committed, and no event has been published.
C18_Witness ==
  \E r \in Reqs :
    /\ started = 1
    /\ req[r].op = "remove_item_from_order"
    /\ req[r].pc = "done"
    /\ req[r].exc = ""
    /\ HasCall(req[r].trace, {"update_ok"})
    /\ repo[req[r].order_id].items = <<>>
    /\ events = <<>>

\* C19: a cancel_order that read an order whose status is not DELIVERED hands
\* to update the order read with status CANCELLED, calls update once, the
\* commit stores CANCELLED and leaves items and total alone, and the request
\* publishes exactly one order.cancelled event, after update has returned.
C19_CancelHappyPath ==
  /\ [](\A r \in Reqs :
          (/\ req[r].op = "cancel_order"
           /\ req[r].pc # "find_by_id"
           /\ req[r].order # NoOrder
           /\ req[r].order.status # "DELIVERED") =>
            /\ req[r].order.status = "CANCELLED"
            /\ req[r].previous_status # "DELIVERED"
            /\ req[r].exc \in {"", "RepositoryError", "PublishError"}
            /\ ~HasCall(req[r].trace, {"validate"})
            /\ (req[r].pc = "done" /\ req[r].exc = "") =>
                 /\ req[r].trace = <<"find_by_id", "mutate", "update", "update_ok",
                                     "publish", "publish_ok">>
                 /\ req[r].event = OrderCancelledEvent_create(req[r].order))
  /\ [][\A r \in Reqs :
          /\ (/\ req[r].op = "cancel_order"
              /\ req[r].pc = "find_by_id"
              /\ req'[r].op = "cancel_order"
              /\ req'[r].pc # "find_by_id"
              /\ repo[req[r].order_id] # NoOrder
              /\ repo[req[r].order_id].status # "DELIVERED") =>
               /\ req'[r].pc = "update_select"
               /\ req'[r].previous_status = repo[req[r].order_id].status
               /\ req'[r].order.items = repo[req[r].order_id].items
               /\ req'[r].order.total = repo[req[r].order_id].total
          /\ CommitsUpdate(r, "cancel_order") =>
               /\ repo'[req[r].order_id].status = "CANCELLED"
               /\ CommitKeepsItemsAndTotal(r)
          /\ Publishes(r, "cancel_order") =>
               events' = Append(events, req[r].event)]_vars

\* C19 witness: a cancel_order, the only request so far, has returned; the
\* stored order is CANCELLED with the items and total it had, and the one
\* event published is its order.cancelled.
C19_Witness ==
  \E r \in Reqs :
    /\ started = 1
    /\ req[r].op = "cancel_order"
    /\ req[r].pc = "done"
    /\ req[r].exc = ""
    /\ repo[1].status = "CANCELLED"
    /\ repo[1].items = StoredOrder.items
    /\ repo[1].total = StoredOrder.total
    /\ events = <<OrderCancelledEvent_create(req[r].order)>>

FindingUseCases ==
  {"add_item_to_order", "remove_item_from_order", "update_order_status",
   "cancel_order", "confirm_order"}

\* C20: in add_item_to_order, remove_item_from_order, update_order_status,
\* cancel_order and confirm_order, a find_by_id that returns nothing ends the
\* request with an OrderNotFoundException after that one call: no inventory
\* validation, no update, no publish; a find_by_id that returns an order
\* never does.
C20_NotFoundGuard ==
  \A r \in Reqs :
    (req[r].op \in FindingUseCases /\ req[r].pc # "find_by_id") =>
      /\ req[r].order = NoOrder <=> req[r].exc = "OrderNotFoundException"
      /\ req[r].order = NoOrder =>
           /\ req[r].pc = "done"
           /\ req[r].trace = <<"find_by_id">>
           /\ req[r].availability = NoAvailability
           /\ req[r].event = NoEvent

\* C20 witness: a confirm_order for an id under which nothing is stored has
\* ended with an OrderNotFoundException.
C20_Witness ==
  \E r \in Reqs :
    /\ req[r].op = "confirm_order"
    /\ req[r].pc = "done"
    /\ repo[req[r].order_id] = NoOrder
    /\ req[r].exc = "OrderNotFoundException"

\* The orders stored, as a query returns them
StoredMatching(P(_)) ==
  {repo[id] : id \in {i \in OrderIds : repo[i] # NoOrder /\ P(repo[i])}}

QueryOps ==
  {"get_order_by_id", "get_orders_by_customer_id", "get_orders_by_status",
   "get_orders_by_date_range"}

\* C21: the four queries are read-only (a query step leaves the orders table
\* and the published events as they were); get_order_by_id raises
\* OrderNotFoundException exactly when no order is stored under the id and
\* returns the stored order otherwise; the queries by customer, by status and
\* by date range never raise and return exactly the stored orders that
\* match, the empty collection when none does.
C21_QueriesAreReadOnly ==
  /\ [](/\ portCall.op = "get_order_by_id" =>
             IF repo[portCall.args[1]] = NoOrder
             THEN portCall.exc = "OrderNotFoundException" /\ portCall.orders = {}
             ELSE portCall.exc = "" /\ portCall.orders = {repo[portCall.args[1]]}
        /\ portCall.op = "get_orders_by_customer_id" =>
             /\ portCall.exc = ""
             /\ portCall.orders =
                  StoredMatching(LAMBDA o : o.customer_id = portCall.args[1])
        /\ portCall.op = "get_orders_by_status" =>
             /\ portCall.exc = ""
             /\ portCall.orders =
                  StoredMatching(LAMBDA o : o.status = portCall.args[1])
        /\ portCall.op = "get_orders_by_date_range" =>
             /\ portCall.exc = ""
             /\ portCall.orders =
                  StoredMatching(LAMBDA o :
                    /\ portCall.args[1] <= o.created_at
                    /\ o.created_at <= portCall.args[2]
                    /\ portCall.args[3] \in {NoStatus, o.status}))
  /\ [][portCall'.op \in QueryOps => repo' = repo /\ events' = events]_vars

\* get_order_by_id is asked for an id that is not stored while another order is
C21_Witness ==
  /\ portCall.op = "get_order_by_id"
  /\ portCall.exc = "OrderNotFoundException"
  /\ \E id \in OrderIds : repo[id] # NoOrder

\* C22: on an order in CREATED or PENDING, remove_item never raises; with an
\* id that no item has it returns the order as it is, items and total; it
\* leaves no item with the id and keeps the others, in their order; applied a
\* second time with the same id it returns what the first application did.
C22_RemoveItemIdempotent ==
  /\ [](\A item_id \in ItemIds :
          CanModifyItems(agg.status) =>
            LET once == remove_item(agg, item_id)
                twice == remove_item(once.order, item_id)
            IN /\ once.exc = ""
               /\ item_id \notin ItemIdsOf(agg.items) => once.order = agg
               /\ item_id \notin ItemIdsOf(once.order.items)
               /\ once.order.items = SelectSeq(agg.items, LAMBDA it : it.id # item_id)
               /\ twice = once)
  /\ [][(/\ aggLast'.op = "remove_item"
         /\ CanModifyItems(agg.status)
         /\ aggLast'.item_id \notin ItemIdsOf(agg.items))
        => aggLast'.exc = "" /\ agg' = agg]_vars

\* remove_item has returned on an order that still has as many items as an
\* order can have here: the id it was given was none of theirs
C22_Witness ==
  /\ aggLast.op = "remove_item"
  /\ aggLast.exc = ""
  /\ aggLast.item_id \notin ItemIdsOf(agg.items)
  /\ Len(agg.items) = MaxItems

\* C23: a request that publish_event failed has raised that failure and is
\* over; the failed call was its last call, made after save or update had
\* returned, and every publish_event call before it had returned (no call is
\* repeated); the step in which publish_event fails changes neither the orders
\* table nor the published events.  In confirm_order the update stores
\* CONFIRMED, and a request whose first publish failed made no second
\* publish_event call, so it did not publish order.confirmed.
C23_PublishFailurePropagates ==
  /\ [](\A r \in Reqs :
          req[r].exc = "PublishError" =>
            /\ req[r].pc = "done"
            /\ req[r].trace[Len(req[r].trace)] = "publish"
            /\ HasCall(req[r].trace, PersistReturns)
            /\ Count(req[r].trace, "publish") = Count(req[r].trace, "publish_ok") + 1
            /\ (req[r].op = "confirm_order"
                /\ req[r].event.event_type = "order.status_updated")
               => Count(req[r].trace, "publish") = 1)
  /\ [][\A r \in Reqs :
          /\ (req[r].pc = "publish" /\ req'[r].exc = "PublishError")
             => /\ req'[r].pc = "done"
                /\ req'[r].trace = req[r].trace
                /\ repo' = repo
                /\ events' = events
          /\ CommitsUpdate(r, "confirm_order")
             => repo'[req[r].order.id].status = "CONFIRMED"]_vars

\* confirm_order has stored CONFIRMED and failed in its first publish: the
\* order is still CONFIRMED and no order.confirmed was published
C23_Witness ==
  \E r \in Reqs :
    /\ req[r].op = "confirm_order"
    /\ req[r].exc = "PublishError"
    /\ req[r].event.event_type = "order.status_updated"
    /\ repo[req[r].order_id].status = "CONFIRMED"
    /\ \A k \in 1..Len(events) : events[k].event_type # "order.confirmed"

\* C24: update of an order whose id is not stored raises ValueError and commits
\* nothing, the orders table stays as it was; delete of an id that is not
\* stored returns without deleting or committing; delete of a stored id, when
\* it returns, has committed and removed that order and no other.
C24_RepositoryUnknownIds ==
  [][/\ (portCall'.op = "update" /\ repo[portCall'.args[1]] = NoOrder)
        => /\ portCall'.exc = "ValueError"
           /\ ~portCall'.committed
           /\ repo' = repo
     /\ (portCall'.op = "delete" /\ repo[portCall'.args[1]] = NoOrder)
        => /\ portCall'.exc = ""
           /\ ~portCall'.committed
           /\ repo' = repo
     /\ (portCall'.op = "delete" /\ repo[portCall'.args[1]] # NoOrder
         /\ portCall'.exc = "")
        => /\ portCall'.committed
           /\ repo' = [repo EXCEPT ![portCall'.args[1]] = NoOrder]]_vars

\* update was given an order that is not stored, beside one that is
C24_Witness ==
  /\ portCall.op = "update"
  /\ portCall.exc = "ValueError"
  /\ repo[portCall.args[1]] = NoOrder
  /\ \E id \in OrderIds : repo[id] # NoOrder

SameIdentity(a, b) ==
  /\ a.id = b.id
  /\ a.customer_id = b.customer_id
  /\ a.created_at = b.created_at

\* C25: id, customer_id and created_at of an order are those of its creation.
\* add_item, remove_item, update_status and cancel return an order with the
\* three fields they were given; an order is stored under its id, and no step
\* changes the three fields of a stored order or of the order a request works
\* on; the order a use case reads and returns has the id that was requested
\* and the customer_id and created_at of the stored order.
C25_IdentityNeverChanges ==
  /\ [](/\ \A id \in OrderIds : repo[id] # NoOrder => repo[id].id = id
        /\ \A r \in Reqs :
             req[r].order # NoOrder =>
               /\ req[r].op # "create_order" =>
                    /\ req[r].order.id = req[r].order_id
                    /\ SameIdentity(req[r].order, repo[req[r].order_id])
               /\ \A item \in NewItems :
                    SameIdentity(add_item(req[r].order, item).order, req[r].order)
               /\ \A item_id \in ItemIds :
                    SameIdentity(remove_item(req[r].order, item_id).order, req[r].order)
               /\ \A status \in OrderStatus, now \in Times :
                    /\ SameIdentity(update_status(req[r].order, status, now).order,
                                    req[r].order)
                    /\ SameIdentity(cancel(req[r].order, now).order, req[r].order))
  /\ [][/\ \A id \in OrderIds :
             repo[id] # NoOrder => SameIdentity(repo'[id], repo[id])
        /\ \A r \in Reqs :
             (req[r].order # NoOrder /\ req[r].pc # "done" /\ req'[r].order # NoOrder)
             => SameIdentity(req'[r].order, req[r].order)]_vars

\* add_item_to_order has returned the order it changed and stored
C25_Witness ==
  \E r \in Reqs :
    /\ req[r].op = "add_item_to_order"
    /\ req[r].pc = "done"
    /\ req[r].exc = ""
    /\ req[r].order.id = req[r].order_id
    /\ Len(repo[req[r].order_id].items) > Len(StoredOrder.items)
    /\ SameIdentity(repo[req[r].order_id], StoredOrder)

\* C26: a method of the order that raises leaves the order as it was, and
\* add_item and remove_item raise on an order outside CREATED and PENDING;
\* update_status and cancel, when they return, have changed nothing but status
\* and updated_at; add_item and remove_item, when they return, have changed
\* nothing but items and total.
C26_MethodsTouchOnlyTheirFields ==
  [][/\ aggLast'.exc # "" => agg' = agg
     /\ (aggLast'.op \in {"add_item", "remove_item"} /\ ~CanModifyItems(agg.status))
        => aggLast'.exc # "" /\ agg'.items = agg.items
     /\ (aggLast'.op \in {"update_status", "cancel"} /\ aggLast'.exc = "")
        => agg' = [agg EXCEPT !.status = agg'.status, !.updated_at = agg'.updated_at]
     /\ (aggLast'.op \in {"add_item", "remove_item"} /\ aggLast'.exc = "")
        => agg' = [agg EXCEPT !.items = agg'.items, !.total = agg'.total]]_vars

\* add_item has raised on a CONFIRMED order that has items
C26_Witness ==
  /\ aggLast.op = "add_item"
  /\ aggLast.exc # ""
  /\ aggLast.prev_status = "CONFIRMED"
  /\ agg.status = "CONFIRMED"
  /\ agg.items # <<>>

\* C27: the inventory adapter answers a failed call (a RequestError of httpx,
\* a timeout included) and every response whose status code is not 200 by
\* raising InventoryValidationException, no other exception and no mapping;
\* the mapping it returns on a 200 response has an entry for the product of
\* every item given, false for the products the response does not say true of.
C27_FaultsEndInInventoryValidation ==
  portCall.op = "validate_items_availability" =>
    LET items == portCall.args[1]
        http == portCall.args[2]
    IN /\ (http.kind = "RequestError" \/ http.status_code # 200)
          => portCall.exc = "InventoryValidationException" /\ ~portCall.mapping
       /\ portCall.mapping
          => /\ http.kind = "response" /\ http.status_code = 200
             /\ portCall.availability.yes \cup portCall.availability.no
                  = ProductIds(items)
             /\ portCall.availability.yes = ProductIds(items) \cap http.yes

\* C28: cancel_order on a stored order that is not DELIVERED, an order that is
\* already CANCELLED included, does not raise: it goes on to update with the
\* order CANCELLED, its commit stores CANCELLED, and its publish, when it
\* returns, has appended its own order.cancelled event to those published
\* before; a cancel_order that has returned has had one update and one
\* publish_event return, whatever the status it read.
C28_CancelTwice ==
  /\ [](\A r \in Reqs :
          (req[r].op = "cancel_order" /\ req[r].pc = "done" /\ req[r].exc = "")
          => /\ req[r].order.status = "CANCELLED"
             /\ Count(req[r].trace, "update_ok") = 1
             /\ Count(req[r].trace, "publish_ok") = 1)
  /\ [][\A r \in Reqs :
          /\ (/\ req[r].op = "cancel_order"
              /\ req[r].pc = "find_by_id"
              /\ req'[r].op = "cancel_order"
              /\ req'[r].pc # "find_by_id"
              /\ repo[req[r].order_id] # NoOrder
              /\ repo[req[r].order_id].status # "DELIVERED")
             => /\ req'[r].exc = ""
                /\ req'[r].pc = "update_select"
                /\ req'[r].previous_status = repo[req[r].order_id].status
                /\ req'[r].order.status = "CANCELLED"
          /\ CommitsUpdate(r, "cancel_order")
             => repo'[req[r].order.id].status = "CANCELLED"
          /\ (Publishes(r, "cancel_order") /\ req'[r].exc = "")
             => /\ events' = Append(events, req[r].event)
                /\ req[r].event.event_type = "order.cancelled"
                /\ req[r].event.order_id = req[r].order_id]_vars

\* Two cancel_order requests for the same order have returned, the second
\* having read it CANCELLED: the order is CANCELLED and two order.cancelled
\* events are out
C28_Witness ==
  \E r \in Reqs :
    /\ req[r].op = "cancel_order"
    /\ req[r].pc = "done"
    /\ req[r].exc = ""
    /\ req[r].previous_status = "CANCELLED"
    /\ repo[req[r].order_id].status = "CANCELLED"
    /\ Len(events) = 2
    /\ \A k \in 1..Len(events) :
         /\ events[k].event_type = "order.cancelled"
         /\ events[k].order_id = req[r].order_id

\* C29: a confirm_order that has read an order without items never calls
\* update, and when it is over it has raised: no order without items is stored
\* as CONFIRMED by a confirmation.
C29_EmptyOrderNotConfirmed ==
  \A r \in Reqs :
    (req[r].op = "confirm_order" /\ req[r].order # NoOrder /\ req[r].order.items = <<>>)
    => /\ ~HasCall(req[r].trace, {"update"})
       /\ req[r].pc = "done" => req[r].exc # ""

\* C30: when the update of add_item_to_order or remove_item_from_order
\* commits, the status stored at that moment is CREATED or PENDING, and the
\* commit does not replace a stored status outside these two.
C30_ItemWritesGatedOnPersistedStatus ==
  [][\A r \in Reqs :
       (CommitsUpdate(r, "add_item_to_order")
        \/ CommitsUpdate(r, "remove_item_from_order"))
       => /\ CanModifyItems(repo[req[r].order.id].status)
          /\ ~CanModifyItems(repo[req[r].order.id].status)
             => repo'[req[r].order.id].status = repo[req[r].order.id].status]_vars

\* C31: in every interleaving of cancel_order with update_order_status, the
\* commit of a cancel_order, after which it builds and publishes
\* order.cancelled, never finds DELIVERED stored for the order: DELIVERED is
\* never overwritten with CANCELLED and no order.cancelled follows such a write.
C31_CancelNeverOverwritesDelivered ==
  [][\A r \in Reqs :
       CommitsUpdate(r, "cancel_order")
       => /\ repo[req[r].order_id].status # "DELIVERED"
          /\ ~(/\ repo[req[r].order_id].status = "DELIVERED"
               /\ repo'[req[r].order_id].status = "CANCELLED"
               /\ req'[r].event.event_type = "order.cancelled")]_vars

\* C32: when the update of an update_order_status or of a confirm_order
\* commits, the order.status_updated event the request builds from it, the one
\* it goes on to publish, reports as previous_status the status that was stored
\* for the order just before the commit and as new_status the status the
\* commit stored.
C32_StatusUpdatedEventIsTruthful ==
  [][\A r \in Reqs :
       (CommitsUpdate(r, "update_order_status") \/ CommitsUpdate(r, "confirm_order"))
       => /\ req'[r].event.event_type = "order.status_updated"
          /\ req'[r].event.order_id = req[r].order_id
          /\ req'[r].event.previous_status = repo[req[r].order_id].status
          /\ req'[r].event.new_status = repo'[req[r].order_id].status]_vars

====
